---- MODULE Spec2Model ----
(***************************************************************************)
(* Model of monitoramento.py: the NetworkMonitor probing loop with its     *)
(* running statistics, baseline, anomaly detector and log persister, and   *)
(* the DualWiFiMonitorManager that runs several monitors in threads.       *)
(*                                                                         *)
(* Conventions.  Latencies are whole milliseconds.  A mean is kept as the  *)
(* exact fraction [s |-> sum, n |-> count] and compared by cross           *)
(* multiplication, so no rounding enters a comparison.  A timestamp is     *)
(* [d |-> calendar day, t |-> logical clock].  A NetworkMonitor object is  *)
(* a record whose fields carry the attribute names of the class; objects   *)
(* live in the sequence objs and are referred to by their index.           *)
(***************************************************************************)
EXTENDS Integers, Sequences, FiniteSets, TLC

VARIABLES
    objs,            \* every NetworkMonitor object ever constructed
    monitors,        \* DualWiFiMonitorManager.monitors: key -> object index
    monitor_threads, \* DualWiFiMonitorManager.monitor_threads: key -> thread index
    threads,         \* every thread ever created (workers and probing loops)
    caller,          \* the thread that calls the manager / the monitor
    callbacks,       \* per object, the data handed to the on_sample callback
    network_log,     \* logs/network_log_<date>.csv: date -> rows
    anomaly_files,   \* logs/anomalias_*.csv: file name -> rows
    today,           \* the wall-clock calendar day
    now,             \* the wall-clock time (logical)
    env,             \* what is left of the bounded environment
    last_close,      \* observation: the most recent episode close
    stream           \* observation: the run of samples fed since an episode opened

vars == <<objs, monitors, monitor_threads, threads, caller, callbacks,
          network_log, anomaly_files, today, now, env, last_close, stream>>

----------------------------------------------------------------------------
(* Bounds of the model *)

MaxTicks == 12
MaxRuns == 3
MaxStarts == 2
MaxStops == 2
MaxPings == 1

(* Program constants *)

None == -1
Inf == 999999
PingHistoryMaxLen == 200
BaselineMaxLen == 100
CacheRefresh == 10
WifiCheckEvery == 10
BaselineMinForStats == 10
BaselineWindow == 50
LogBufferMax == 10
ConnectivityAlertAfter == 3
DefaultAlertThreshold == 100
DefaultInterval == 1
DefaultPacketLossThreshold == 5
DefaultAnomalyThreshold == 100
DefaultMinSamples == 30
DefaultMinConsecutiveNormal == 10
DefaultMinPings == 5
DefaultMinIncreasePercent == 50
DefaultDeviationMultiplier == [s |-> 5, n |-> 2]

----------------------------------------------------------------------------
(* Arithmetic helpers *)

RECURSIVE Sum(_)
Sum(q) == IF q = <<>> THEN 0 ELSE Head(q) + Sum(Tail(q))

RECURSIVE SumSq(_)
SumSq(q) == IF q = <<>> THEN 0 ELSE Head(q) * Head(q) + SumSq(Tail(q))

RECURSIVE Min(_)
Min(q) == IF Len(q) = 1 THEN Head(q)
          ELSE LET m == Min(Tail(q)) IN IF Head(q) < m THEN Head(q) ELSE m

RECURSIVE Max(_)
Max(q) == IF Len(q) = 1 THEN Head(q)
          ELSE LET m == Max(Tail(q)) IN IF Head(q) > m THEN Head(q) ELSE m

Zero == [s |-> 0, n |-> 1]

\* statistics.mean of a non-empty sequence, as an exact fraction
Mean(q) == [s |-> Sum(q), n |-> Len(q)]

\* fraction a < integer k, fraction a > 0   (denominators are positive)
RatLtInt(a, k) == a.s < k * a.n
RatGtZero(a) == a.s > 0

\* deque(maxlen=max).append(x)
DequeAppend(q, x, max) ==
    IF Len(q) >= max THEN Append(Tail(q), x) ELSE Append(q, x)

\* list(q)[-k:]
LastN(q, k) == IF Len(q) > k THEN SubSeq(q, Len(q) - k + 1, Len(q)) ELSE q

\* f'{x:.<k>f}' of a non-negative fraction, as a number of units of 1/scale
\* (round half to even, as the float formatting does on an exact tie)
Fmt(a, scale) ==
    LET num == a.s * scale
        q == num \div a.n
        r == num % a.n
    IN  IF 2 * r > a.n THEN q + 1
        ELSE IF 2 * r < a.n THEN q
        ELSE IF q % 2 = 0 THEN q ELSE q + 1

\* f'{x:.2f}' in hundredths, f'{x:.1f}' in tenths
Fmt2(a) == Fmt(a, 100)
Fmt1(a) == Fmt(a, 10)

----------------------------------------------------------------------------
(* Files *)

\* "".join(c for c in ssid if c.isalnum() or c in (' ','_','-')).strip()
\*    .replace(' ', '_'), on the SSIDs the model uses
SafeSsid(ssid) ==
    CASE ssid = "Home WiFi" -> "Home_WiFi"
      [] ssid = "Home_WiFi" -> "Home_WiFi"
      [] ssid = "Cafe!" -> "Cafe"
      [] OTHER -> ssid

\* f'logs/anomalias_{safe_ssid}_{date_str}.csv'
AnomalyFileName(ssid, date) == [tag |-> SafeSsid(ssid), d |-> date]

\* 'logs/anomalias_detectadas.csv'
DefaultAnomalyFile == [tag |-> "detectadas", d |-> None]

NetshFailed == "<netsh failed>"

\* current_date not in self.anomaly_file
DateNotIn(date, name) == name.d # date

Exists(fs, name) == name \in DOMAIN fs

FileRows(fs, name) == IF Exists(fs, name) THEN fs[name] ELSE <<>>

\* open(name, 'a') and one writerow per element of rows, the header first
\* when the file did not exist
AppendRows(fs, name, header, rows) ==
    LET old == IF Exists(fs, name) THEN fs[name] ELSE <<header>>
    IN  [f \in DOMAIN fs \cup {name} |-> IF f = name THEN old \o rows ELSE fs[f]]

AnomalyHeader == [header |-> "Data,Hora_Inicio,Hora_Fim,..."]
LogHeader == [header |-> "Timestamp,Server,Latency (ms),Status,Packet_Loss_%"]

----------------------------------------------------------------------------
(* NetworkMonitor *)

\* csv.DictReader rows of the anomaly file: every row after the header
load_anomalies(anomaly_file, fs) ==
    IF Exists(fs, anomaly_file) THEN Tail(fs[anomaly_file]) ELSE <<>>

\* a time attribute that holds None
NoTime == [d |-> None, t |-> None]

InitialStats ==
    [total_pings |-> 0, successful_pings |-> 0, failed_pings |-> 0,
     min_latency |-> Inf, max_latency |-> 0, avg_latency |-> Zero,
     packet_loss |-> Zero, alerts_triggered |-> 0, start_time |-> NoTime]

\* NetworkMonitor.__init__(monitor_id, wifi_ssid); wifi_ssid = "" stands for None
NetworkMonitor(monitor_id, wifi_ssid, fs, date) ==
    LET file == IF wifi_ssid # "" THEN AnomalyFileName(wifi_ssid, date)
                ELSE DefaultAnomalyFile
    IN  [monitor_id |-> monitor_id,
         wifi_ssid |-> wifi_ssid,
         monitoring |-> FALSE,
         ping_history |-> <<>>,
         current_server |-> "8.8.8.8",
         interval |-> DefaultInterval,
         alert_threshold |-> DefaultAlertThreshold,
         packet_loss_threshold |-> DefaultPacketLossThreshold,
         stats |-> InitialStats,
         anomaly_file |-> file,
         current_wifi_ssid |-> wifi_ssid,
         last_known_wifi |-> "",
         enable_alerts |-> TRUE,
         enable_sound_alerts |-> TRUE,
         enable_wifi_reconnect |-> TRUE,
         anomaly_threshold |-> DefaultAnomalyThreshold,
         anomaly_deviation_multiplier |-> DefaultDeviationMultiplier,
         anomaly_min_samples |-> DefaultMinSamples,
         anomaly_min_consecutive_normal |-> DefaultMinConsecutiveNormal,
         anomaly_min_pings |-> DefaultMinPings,
         anomaly_min_increase_percent |-> DefaultMinIncreasePercent,
         anomaly_window |-> <<>>,
         anomaly_normal_buffer |-> <<>>,
         in_anomaly |-> FALSE,
         anomaly_start_time |-> NoTime,
         anomaly_start_index |-> 0,
         anomaly_reason |-> "threshold",
         detected_anomalies |-> load_anomalies(file, fs),
         baseline_latencies |-> <<>>,
         cached_baseline_mean |-> [s |-> 0, n |-> 0],
         cached_baseline_stdev |-> [s |-> 0, n |-> 0],
         baseline_cache_count |-> 0,
         log_buffer |-> <<>>,
         log_buffer_max |-> LogBufferMax]

\* the attribute assignments a caller makes on a constructed monitor
Configure(self, cfg) ==
    [self EXCEPT !.anomaly_threshold = cfg.anomaly_threshold,
                 !.anomaly_min_samples = cfg.anomaly_min_samples,
                 !.anomaly_min_consecutive_normal = cfg.anomaly_min_consecutive_normal,
                 !.anomaly_min_pings = cfg.anomaly_min_pings]

----------------------------------------------------------------------------
(* Anomaly detector *)

\* one row of the anomaly file, as save_anomaly formats it (lines 648-663):
\* 'N/A' is the number None
AnomalyRow(a) ==
    [Data |-> a.start_time.d,
     Hora_Inicio |-> a.start_time.t,
     Hora_Fim |-> a.end_time.t,
     Duracao_Segundos |-> a.duration_seconds,
     Latencia_Media_Pico |-> Fmt2(a.avg_latency),
     Latencia_Min_Pico |-> a.min_latency * 100,
     Latencia_Max_Pico |-> a.max_latency * 100,
     Pings_Afetados |-> a.pings_affected,
     Numero_Ping_Inicio |-> a.start_ping_number,
     Metodo_Deteccao |-> a.detection_method,
     Baseline_Media |-> IF RatGtZero(a.baseline_avg) THEN Fmt2(a.baseline_avg) ELSE None,
     Baseline_Min |-> IF a.baseline_min > 0 THEN a.baseline_min * 100 ELSE None,
     Baseline_Max |-> IF a.baseline_max > 0 THEN a.baseline_max * 100 ELSE None,
     Aumento_Percentual |-> IF RatGtZero(a.increase_percent)
                            THEN Fmt1(a.increase_percent) ELSE None]

\* save_anomaly, the file it selects: recomputed when the monitor has an SSID
\* and the current date is not in the name
save_anomaly_file(self, date) ==
    IF self.wifi_ssid # "" /\ DateNotIn(date, self.anomaly_file)
    THEN AnomalyFileName(self.wifi_ssid, date)
    ELSE self.anomaly_file

\* save_anomaly: [self, fs] after the row is appended; when the file cannot be
\* opened (line 637) the exception is caught at line 665 and nothing is written
save_anomaly(self, anomaly_data, fs, date) ==
    LET file == save_anomaly_file(self, date)
    IN  [self |-> [self EXCEPT !.anomaly_file = file],
         fs |-> IF env.writable
                THEN AppendRows(fs, file, AnomalyHeader, <<AnomalyRow(anomaly_data)>>)
                ELSE fs]

\* latency > baseline_mean + baseline_stdev * multiplier, where mean is the
\* fraction S/n and stdev the square root of the fraction var (the sample
\* variance (n*Q - S*S) / (n*(n-1))); both sides squared once the left is positive
AboveDynamicThreshold(latency, mean, var, mult) ==
    LET d == latency * mean.n - mean.s
    IN  /\ d > 0
        /\ d * d * var.n * mult.n * mult.n > mult.s * mult.s * var.s * mean.n * mean.n

\* statistics.stdev(q) squared, as a fraction
Variance(q) ==
    [s |-> Len(q) * SumSq(q) - Sum(q) * Sum(q), n |-> Len(q) * (Len(q) - 1)]

\* lines 488-491: the sample joins the baseline unless an episode is open
observe_baseline(self, latency) ==
    IF ~self.in_anomaly
    THEN [self EXCEPT !.baseline_latencies = DequeAppend(@, latency, BaselineMaxLen),
                      !.baseline_cache_count = @ + 1]
    ELSE self

\* line 498
FixedCriterion(self, latency) == latency >= self.anomaly_threshold

\* the statistical branch entered whatever the size of the baseline
StatBranch_eager(self, latency) == ~FixedCriterion(self, latency)

\* line 503: the statistical branch is entered
StatBranch(self, latency) ==
    /\ ~FixedCriterion(self, latency)
    /\ Len(self.baseline_latencies) >= self.anomaly_min_samples

\* a plausible slip: the cache is refreshed one insertion late
refresh_cache_late(self) ==
    IF self.baseline_cache_count > CacheRefresh \/ self.cached_baseline_mean.n = 0
    THEN [self EXCEPT !.cached_baseline_mean = Mean(self.baseline_latencies),
                      !.cached_baseline_stdev = Variance(self.baseline_latencies),
                      !.baseline_cache_count = 0]
    ELSE self

\* lines 505-508: the cache is refreshed when stale or empty
refresh_cache(self) ==
    IF self.baseline_cache_count >= CacheRefresh \/ self.cached_baseline_mean.n = 0
    THEN [self EXCEPT !.cached_baseline_mean = Mean(self.baseline_latencies),
                      !.cached_baseline_stdev = Variance(self.baseline_latencies),
                      !.baseline_cache_count = 0]
    ELSE self

\* lines 510-518, on the refreshed cache
StatCriterion(self, latency) ==
    AboveDynamicThreshold(latency, self.cached_baseline_mean,
                          self.cached_baseline_stdev, self.anomaly_deviation_multiplier)

\* lines 560-575: the baseline figures of a closing episode
BaselineDefined(self) == Len(self.baseline_latencies) >= BaselineMinForStats

baseline_list(self) == LastN(self.baseline_latencies, BaselineWindow)

baseline_avg(self) ==
    IF BaselineDefined(self) THEN Mean(baseline_list(self)) ELSE Zero

\* ((avg - baseline_avg) / baseline_avg) * 100 when baseline_avg > 0, else 0
increase_percent(self) ==
    LET avg == Mean(self.anomaly_window)
        b == baseline_avg(self)
    IN  IF BaselineDefined(self) /\ RatGtZero(b)
        THEN [s |-> (avg.s * b.n - b.s * avg.n) * 100, n |-> avg.n * b.s]
        ELSE Zero

\* a plausible slip: an episode needs more than anomaly_min_pings samples
Filter1_strict(self) == Len(self.anomaly_window) <= self.anomaly_min_pings

\* lines 577-587: the three filters
Filter1(self) == Len(self.anomaly_window) < self.anomaly_min_pings

Filter2(self) ==
    /\ RatGtZero(increase_percent(self))
    /\ RatLtInt(increase_percent(self), self.anomaly_min_increase_percent)

\* a plausible slip: filter 3 guarded by increase_percent > 0 like filter 2
Filter3_guarded(self) ==
    /\ RatLtInt(Mean(self.anomaly_window), self.anomaly_threshold)
    /\ RatGtZero(increase_percent(self))
    /\ RatLtInt(increase_percent(self), self.anomaly_min_increase_percent)

Filter3(self) ==
    /\ RatLtInt(Mean(self.anomaly_window), self.anomaly_threshold)
    /\ RatLtInt(increase_percent(self), self.anomaly_min_increase_percent)

PassesFilters(self) == ~Filter1(self) /\ ~Filter2(self) /\ ~Filter3(self)

\* lines 591-605
anomaly_data(self, timestamp) ==
    [start_time |-> self.anomaly_start_time,
     end_time |-> timestamp,
     duration_seconds |-> timestamp.t - self.anomaly_start_time.t,
     avg_latency |-> Mean(self.anomaly_window),
     max_latency |-> Max(self.anomaly_window),
     min_latency |-> Min(self.anomaly_window),
     pings_affected |-> Len(self.anomaly_window),
     start_ping_number |-> self.anomaly_start_index,
     detection_method |-> self.anomaly_reason,
     baseline_avg |-> baseline_avg(self),
     baseline_min |-> IF BaselineDefined(self) THEN Min(baseline_list(self)) ELSE 0,
     baseline_max |-> IF BaselineDefined(self) THEN Max(baseline_list(self)) ELSE 0,
     increase_percent |-> increase_percent(self)]

\* a plausible slip: the episode is stored and its window cleared, in_anomaly
\* stays True
close_episode_left_open(self, timestamp, fs, date) ==
    LET kept == IF PassesFilters(self)
                THEN save_anomaly(
                        [self EXCEPT !.detected_anomalies =
                                         Append(@, anomaly_data(self, timestamp))],
                        anomaly_data(self, timestamp), fs, date)
                ELSE [self |-> self, fs |-> fs]
    IN  [self |-> [kept.self EXCEPT !.anomaly_window = <<>>,
                                    !.anomaly_normal_buffer = <<>>],
         fs |-> kept.fs]

\* lines 547-616: the confirmation buffer is full, the episode closes
close_episode(self, timestamp, fs, date) ==
    LET closed == [self EXCEPT !.in_anomaly = FALSE]
        kept == IF PassesFilters(closed)
                THEN save_anomaly(
                        [closed EXCEPT !.detected_anomalies =
                                           Append(@, anomaly_data(closed, timestamp))],
                        anomaly_data(closed, timestamp), fs, date)
                ELSE [self |-> closed, fs |-> fs]
    IN  [self |-> [kept.self EXCEPT !.anomaly_window = <<>>,
                                    !.anomaly_normal_buffer = <<>>],
         fs |-> kept.fs]

\* a plausible slip: the opening sample is left out of the episode window
anomalous_sample_lost(self, latency, timestamp, reason) ==
    IF ~self.in_anomaly
    THEN [self EXCEPT !.in_anomaly = TRUE,
                      !.anomaly_start_time = timestamp,
                      !.anomaly_start_index = self.stats.total_pings,
                      !.anomaly_window = <<>>,
                      !.anomaly_normal_buffer = <<>>,
                      !.anomaly_reason = reason]
    ELSE [self EXCEPT !.anomaly_window = Append(@, latency) \o self.anomaly_normal_buffer,
                      !.anomaly_normal_buffer = <<>>]

\* a plausible slip: the buffered normal samples are dropped, not folded
anomalous_sample_dropping(self, latency, timestamp, reason) ==
    IF ~self.in_anomaly
    THEN [self EXCEPT !.in_anomaly = TRUE,
                      !.anomaly_start_time = timestamp,
                      !.anomaly_start_index = self.stats.total_pings,
                      !.anomaly_window = <<latency>>,
                      !.anomaly_normal_buffer = <<>>,
                      !.anomaly_reason = reason]
    ELSE [self EXCEPT !.anomaly_window = Append(@, latency),
                      !.anomaly_normal_buffer = <<>>]

\* lines 521-538: an anomalous sample opens or extends the episode
anomalous_sample(self, latency, timestamp, reason) ==
    IF ~self.in_anomaly
    THEN [self EXCEPT !.in_anomaly = TRUE,
                      !.anomaly_start_time = timestamp,
                      !.anomaly_start_index = self.stats.total_pings,
                      !.anomaly_window = <<latency>>,
                      !.anomaly_normal_buffer = <<>>,
                      !.anomaly_reason = reason]
    ELSE [self EXCEPT !.anomaly_window = Append(@, latency) \o self.anomaly_normal_buffer,
                      !.anomaly_normal_buffer = <<>>]

\* a plausible slip: the episode closes one normal sample early
normal_sample_early(self, latency, timestamp, fs, date) ==
    IF self.in_anomaly
    THEN LET buffered == [self EXCEPT !.anomaly_normal_buffer = Append(@, latency)]
         IN  IF Len(buffered.anomaly_normal_buffer) + 1 >= self.anomaly_min_consecutive_normal
             THEN close_episode(buffered, timestamp, fs, date)
             ELSE [self |-> buffered, fs |-> fs]
    ELSE [self |-> self, fs |-> fs]

\* lines 541-616: a normal sample feeds the confirmation buffer
normal_sample(self, latency, timestamp, fs, date) ==
    IF self.in_anomaly
    THEN LET buffered == [self EXCEPT !.anomaly_normal_buffer = Append(@, latency)]
         IN  IF Len(buffered.anomaly_normal_buffer) >= self.anomaly_min_consecutive_normal
             THEN close_episode(buffered, timestamp, fs, date)
             ELSE [self |-> buffered, fs |-> fs]
    ELSE [self |-> self, fs |-> fs]

\* detect_anomaly raises in the statistical branch: statistics.stdev of fewer
\* than two values (line 507, StatisticsError), or a cached stdev that is still
\* None because an earlier call raised there (line 514, TypeError)
statistics_raise(self, latency) ==
    LET s1 == observe_baseline(self, latency)
    IN  /\ StatBranch(s1, latency)
        /\ IF s1.baseline_cache_count >= CacheRefresh \/ s1.cached_baseline_mean.n = 0
           THEN Len(s1.baseline_latencies) < 2
           ELSE s1.cached_baseline_stdev.n = 0

\* detect_anomaly raises at line 556: the sample closes an episode whose window
\* is empty and statistics.mean has no data point (StatisticsError)
close_raises(self, latency) ==
    /\ self.in_anomaly
    /\ self.anomaly_window = <<>>
    /\ Len(self.anomaly_normal_buffer) + 1 >= self.anomaly_min_consecutive_normal
    /\ ~FixedCriterion(self, latency)
    /\ ~statistics_raise(self, latency)
    /\ ~(StatBranch(self, latency) /\ StatCriterion(refresh_cache(self), latency))

detect_anomaly_raises(self, latency) ==
    statistics_raise(self, latency) \/ close_raises(self, latency)

\* the instance when detect_anomaly has raised: in the statistical branch line
\* 506 has run and line 508 has not; at line 556 the sample is in the buffer
\* and in_anomaly is False (lines 544-549)
detect_anomaly_raised(self, latency) ==
    LET s1 == observe_baseline(self, latency)
    IN  IF statistics_raise(self, latency)
        THEN IF s1.baseline_cache_count >= CacheRefresh \/ s1.cached_baseline_mean.n = 0
             THEN [s1 EXCEPT !.cached_baseline_mean = Mean(s1.baseline_latencies)]
             ELSE s1
        ELSE [(IF StatBranch(s1, latency) THEN refresh_cache(s1) ELSE s1)
                 EXCEPT !.anomaly_normal_buffer = Append(@, latency),
                        !.in_anomaly = FALSE]

\* a plausible slip: the statistical criterion is tested before the fixed one
detect_anomaly_statistical_first(self, latency, timestamp, fs, date) ==
    LET s1 == observe_baseline(self, latency)
        enough == Len(s1.baseline_latencies) >= s1.anomaly_min_samples
        s2 == IF enough THEN refresh_cache(s1) ELSE s1
    IN  IF enough /\ StatCriterion(s2, latency)
        THEN [self |-> anomalous_sample(s2, latency, timestamp, "desvio estatistico"),
              fs |-> fs]
        ELSE IF FixedCriterion(s2, latency)
        THEN [self |-> anomalous_sample(s2, latency, timestamp, "threshold fixo"),
              fs |-> fs]
        ELSE normal_sample(s2, latency, timestamp, fs, date)

\* detect_anomaly(latency, timestamp): [self, fs] afterwards
detect_anomaly(self, latency, timestamp, fs, date) ==
    LET s1 == observe_baseline(self, latency)
        s2 == IF StatBranch(s1, latency) THEN refresh_cache(s1) ELSE s1
    IN  IF FixedCriterion(s2, latency)
        THEN [self |-> anomalous_sample(s2, latency, timestamp, "threshold fixo"),
              fs |-> fs]
        ELSE IF StatBranch(s2, latency) /\ StatCriterion(s2, latency)
        THEN [self |-> anomalous_sample(s2, latency, timestamp, "desvio estatistico"),
              fs |-> fs]
        ELSE normal_sample(s2, latency, timestamp, fs, date)

----------------------------------------------------------------------------
(* Probe log *)

\* lines 404-414: the buffered record of one sample
log_entry(self, timestamp, latency) ==
    [timestamp |-> timestamp,
     server |-> self.current_server,
     latency_str |-> IF latency # None THEN latency * 100 ELSE None,
     status |-> IF latency # None THEN "Success" ELSE "Failed",
     packet_loss |-> Fmt2(self.stats.packet_loss)]

\* a plausible slip: the buffer is cleared whether or not the write succeeded
flush_log_buffer_clearing(self, log) ==
    IF self.log_buffer = <<>>
    THEN [self |-> self, log |-> log]
    ELSE [self |-> [self EXCEPT !.log_buffer = <<>>],
          log |-> IF env.writable
                  THEN AppendRows(log, self.log_buffer[1].timestamp.d, LogHeader,
                                  self.log_buffer)
                  ELSE log]

\* flush_log_buffer: [self, log] afterwards; the whole buffer goes to the file
\* named after the date of its first record; when the file cannot be opened
\* (line 438) the exception is caught at line 452 and the buffer is kept
flush_log_buffer(self, log) ==
    IF self.log_buffer = <<>> \/ ~env.writable
    THEN [self |-> self, log |-> log]
    ELSE [self |-> [self EXCEPT !.log_buffer = <<>>],
          log |-> AppendRows(log, self.log_buffer[1].timestamp.d, LogHeader,
                             self.log_buffer)]

\* lines 428-436 of flush_log_buffer: the file the buffer goes to, and whether
\* it exists at that moment
flush_file(self) == self.log_buffer[1].timestamp.d

\* lines 437-451 of flush_log_buffer, reached with the answer file_exists of
\* line 436: open(name, 'a'), the header when file_exists was False, one row
\* per record, and the buffer cleared
flush_write(self, log, file_exists) ==
    LET name == flush_file(self)
        old == IF Exists(log, name) THEN log[name] ELSE <<>>
        head == IF file_exists THEN <<>> ELSE <<LogHeader>>
    IN  [self |-> [self EXCEPT !.log_buffer = <<>>],
         log |-> [f \in DOMAIN log \cup {name} |->
                     IF f = name THEN old \o head \o self.log_buffer ELSE log[f]]]

\* lines 403-417 of log_to_file: the record joins the buffer
log_append(self, timestamp, latency) ==
    [self EXCEPT !.log_buffer = Append(@, log_entry(self, timestamp, latency))]

\* log_to_file(timestamp, latency): [self, log] afterwards
log_to_file(self, timestamp, latency, log) ==
    LET s1 == [self EXCEPT !.log_buffer = Append(@, log_entry(self, timestamp, latency))]
    IN  IF Len(s1.log_buffer) >= s1.log_buffer_max
        THEN flush_log_buffer(s1, log)
        ELSE [self |-> s1, log |-> log]

----------------------------------------------------------------------------
(* start / stop and the probing loop *)

\* lines 157-199: netsh answered with the connected SSID (detected), with none
\* (""), or the query failed (NetshFailed)
update_anomaly_filename_with_wifi(self, date, detected) ==
    IF detected = NetshFailed
    THEN [self EXCEPT !.anomaly_file = [tag |-> "DESCONHECIDO", d |-> date]]
    ELSE IF detected # ""
    THEN [self EXCEPT !.current_wifi_ssid = detected, !.last_known_wifi = detected,
                      !.anomaly_file = AnomalyFileName(detected, date)]
    ELSE [self EXCEPT !.current_wifi_ssid = "",
                      !.anomaly_file = [tag |-> "ETHERNET", d |-> date]]

\* lines 457-467 of start_monitoring, taken when monitoring was False
start_monitoring(self, date, detected) ==
    LET on == [self EXCEPT !.monitoring = TRUE]
    IN  IF self.wifi_ssid = ""
        THEN update_anomaly_filename_with_wifi(on, date, detected)
        ELSE IF DateNotIn(date, self.anomaly_file)
        THEN [on EXCEPT !.anomaly_file = AnomalyFileName(self.wifi_ssid, date)]
        ELSE on

\* a plausible slip: stopping also closes the open episode
stop_monitoring_closing(self, log) ==
    flush_log_buffer([self EXCEPT !.monitoring = FALSE, !.in_anomaly = FALSE,
                                  !.anomaly_window = <<>>,
                                  !.anomaly_normal_buffer = <<>>], log)

\* stop_monitoring: [self, log] afterwards
stop_monitoring(self, log) ==
    flush_log_buffer([self EXCEPT !.monitoring = FALSE], log)

\* a plausible slip: the reset also forgets the detected episodes
reset_stats_forgetting(self) ==
    [self EXCEPT !.stats = InitialStats, !.ping_history = <<>>,
                 !.detected_anomalies = <<>>]

\* reset_stats, lines 683-696
reset_stats(self) ==
    [self EXCEPT !.stats = InitialStats, !.ping_history = <<>>]

\* the locals of monitor_loop, lines 292-295
LoopLocals ==
    [consecutive_failures |-> 0, ping_counter |-> 0,
     data |-> [latency |-> None, timestamp |-> NoTime, status |-> "none",
               alert |-> "none"],
     file_exists |-> FALSE]

\* check_and_reconnect_wifi returns at once unless reconnection is enabled
\* and a Wi-Fi was remembered (lines 203-204); otherwise the OS answers that
\* the Wi-Fi is still the remembered one and nothing changes
check_and_reconnect_wifi(self) == self

\* lines 309-312
count_ping(self, loc) ==
    IF loc.ping_counter + 1 >= WifiCheckEvery
    THEN [self |-> check_and_reconnect_wifi(self),
          loc |-> [loc EXCEPT !.ping_counter = 0]]
    ELSE [self |-> self, loc |-> [loc EXCEPT !.ping_counter = @ + 1]]

\* lines 320-332: the counters and the retained latencies
record_latency(self, latency) ==
    LET s1 == [self EXCEPT !.stats.successful_pings = @ + 1,
                           !.ping_history = DequeAppend(@, latency, PingHistoryMaxLen)]
    IN  [s1 EXCEPT !.stats.min_latency = IF latency < @ THEN latency ELSE @,
                   !.stats.max_latency = IF latency > @ THEN latency ELSE @,
                   !.stats.avg_latency = Mean(s1.ping_history)]

\* a plausible slip: the latency alert compares with the threshold of the
\* detector and ignores enable_alerts
record_success_on_anomaly_threshold(self, loc, latency, timestamp, fs, date) ==
    LET s2 == record_latency(self, latency)
        det == detect_anomaly(s2, latency, timestamp, fs, date)
        fires == latency > det.self.anomaly_threshold
    IN  [self |-> IF fires THEN [det.self EXCEPT !.stats.alerts_triggered = @ + 1]
                  ELSE det.self,
         loc |-> [loc EXCEPT !.consecutive_failures = 0,
                             !.data = [latency |-> latency, timestamp |-> timestamp,
                                       status |-> "success",
                                       alert |-> IF fires THEN "latency" ELSE "none"]],
         fs |-> det.fs]

\* lines 319-353: a probe that returned a latency
record_success(self, loc, latency, timestamp, fs, date) ==
    LET s2 == record_latency(self, latency)
        det == detect_anomaly(s2, latency, timestamp, fs, date)
        fires == det.self.enable_alerts /\ latency > det.self.alert_threshold
    IN  [self |-> IF fires THEN [det.self EXCEPT !.stats.alerts_triggered = @ + 1]
                  ELSE det.self,
         loc |-> [loc EXCEPT !.consecutive_failures = 0,
                             !.data = [latency |-> latency, timestamp |-> timestamp,
                                       status |-> "success",
                                       alert |-> IF fires THEN "latency" ELSE "none"]],
         fs |-> det.fs]

\* a plausible slip: the connectivity alert waits for one failure more
record_failure_late(self, loc, timestamp, fs) ==
    LET fails == loc.consecutive_failures + 1
        fires == fails > ConnectivityAlertAfter
    IN  [self |-> [self EXCEPT !.stats.failed_pings = @ + 1,
                               !.stats.alerts_triggered = IF fires THEN @ + 1 ELSE @],
         loc |-> [loc EXCEPT !.consecutive_failures = fails,
                             !.data = [latency |-> None, timestamp |-> timestamp,
                                       status |-> "failed",
                                       alert |-> IF fires THEN "connection" ELSE "none"]],
         fs |-> fs]

\* a plausible slip: a failed probe breaks the run of normal samples
record_failure_breaking_run(self, loc, timestamp, fs) ==
    LET fails == loc.consecutive_failures + 1
        fires == fails >= ConnectivityAlertAfter
    IN  [self |-> [self EXCEPT !.stats.failed_pings = @ + 1,
                               !.stats.alerts_triggered = IF fires THEN @ + 1 ELSE @,
                               !.anomaly_normal_buffer = <<>>],
         loc |-> [loc EXCEPT !.consecutive_failures = fails,
                             !.data = [latency |-> None, timestamp |-> timestamp,
                                       status |-> "failed",
                                       alert |-> IF fires THEN "connection" ELSE "none"]],
         fs |-> fs]

\* lines 356-376: a probe that failed
record_failure(self, loc, timestamp, fs) ==
    LET fails == loc.consecutive_failures + 1
        fires == fails >= ConnectivityAlertAfter
    IN  [self |-> [self EXCEPT !.stats.failed_pings = @ + 1,
                               !.stats.alerts_triggered = IF fires THEN @ + 1 ELSE @],
         loc |-> [loc EXCEPT !.consecutive_failures = fails,
                             !.data = [latency |-> None, timestamp |-> timestamp,
                                       status |-> "failed",
                                       alert |-> IF fires THEN "connection" ELSE "none"]],
         fs |-> fs]

\* a plausible slip: the total is counted only for probes that returned a latency
loop_probe_uncounted(self, loc, latency, timestamp, fs, date) ==
    LET c == count_ping(self, loc)
    IN  IF latency # None
        THEN record_success([c.self EXCEPT !.stats.total_pings = @ + 1], c.loc, latency,
                            timestamp, fs, date)
        ELSE record_failure(c.self, c.loc, timestamp, fs)

\* lines 301-353 / 356-376: one probe and its bookkeeping, up to the callback
loop_probe(self, loc, latency, timestamp, fs, date) ==
    LET c == count_ping(self, loc)
        counted == [c.self EXCEPT !.stats.total_pings = @ + 1]
    IN  IF latency # None
        THEN record_success(counted, c.loc, latency, timestamp, fs, date)
        ELSE record_failure(counted, c.loc, timestamp, fs)

\* lines 309-335 when detect_anomaly raises: the exception is caught at line
\* 389 and the rest of the iteration (alert, callback, packet loss, log record)
\* is skipped
loop_probe_raises(self, loc, latency) ==
    /\ latency # None
    /\ detect_anomaly_raises(
           record_latency([count_ping(self, loc).self EXCEPT !.stats.total_pings = @ + 1],
                          latency), latency)

loop_probe_raised(self, loc, latency) ==
    LET c == count_ping(self, loc)
        counted == [c.self EXCEPT !.stats.total_pings = @ + 1]
    IN  [self |-> detect_anomaly_raised(record_latency(counted, latency), latency),
         loc |-> [c.loc EXCEPT !.consecutive_failures = 0]]

\* a plausible slip: the try block around the whole loop, not inside it
on_exception_leaving(pc) == "done"

\* lines 389-393: the exception is printed, the loop sleeps and goes on
on_exception(pc) == pc

\* lines 379-380
update_packet_loss(self) ==
    IF self.stats.total_pings > 0
    THEN [self EXCEPT !.stats.packet_loss =
                          [s |-> self.stats.failed_pings * 100, n |-> self.stats.total_pings]]
    ELSE self

\* lines 354/377-383: the callback has returned; packet loss and the log record
loop_deliver(self, loc, log) ==
    log_to_file(update_packet_loss(self), loc.data.timestamp, loc.data.latency, log)

----------------------------------------------------------------------------
(* Threads *)

\* a thread running monitor_loop for object m
LoopThread(m) == [kind |-> "loop", mon |-> m, pc |-> "start", loc |-> LoopLocals]

\* a thread running _monitor_thread_worker for object m
WorkerThread(m) == [kind |-> "worker", mon |-> m, pc |-> "start", loc |-> LoopLocals]

Alive(th) == th.pc # "done"

LoopsOf(m) == {i \in DOMAIN threads : threads[i].kind = "loop" /\ threads[i].mon = m}

ActiveLoopsOf(m) == {i \in LoopsOf(m) : Alive(threads[i])}

Timestamp == [d |-> today, t |-> now]

EmptyFiles == [f \in {} |-> <<>>]

TotalRows(fs) == LET RECURSIVE Count(_)
                     Count(S) == IF S = {} THEN 0
                                 ELSE LET f == CHOOSE x \in S : TRUE
                                      IN  Len(fs[f]) + Count(S \ {f})
                 IN  Count(DOMAIN fs)

----------------------------------------------------------------------------
(* Observations (history variables; the program has no such state) *)

NoClose == [seen |-> FALSE, window |-> <<>>, baseline |-> <<>>,
            persisted |-> FALSE, saved |-> FALSE]

\* lines 498-518 as seen from outside: the sample taken from o to o2 met the
\* fixed criterion or, the statistical branch entered, the statistical one
ClassifiedAnomalous(o, o2, latency) ==
    FixedCriterion(o, latency) \/ (StatBranch(o2, latency) /\ StatCriterion(o2, latency))

\* the samples of the open episode, counted from their classification: those
\* classified anomalous (anom), the normal ones that an anomalous one followed
\* (folded) and the normal ones since the last anomalous one (pending); the
\* baseline as it stood when the opening sample arrived (before)
NoEpisode == [anom |-> 0, folded |-> 0, pending |-> 0, before |-> <<>>]

EpisodeHistory(o, o2, latency, h) ==
    IF ClassifiedAnomalous(o, o2, latency)
    THEN IF o.in_anomaly
         THEN [h EXCEPT !.anom = @ + 1, !.folded = @ + h.pending, !.pending = 0]
         ELSE [anom |-> 1, folded |-> 0, pending |-> 0, before |-> o.baseline_latencies]
    ELSE IF o2.in_anomaly THEN [h EXCEPT !.pending = @ + 1]
    ELSE NoEpisode

\* the baseline as it stood when cached_baseline_mean and cached_baseline_stdev
\* were last computed together (src) and the samples appended to it since
\* (since); the counter of the code returns to 0 only at line 508
NoCacheHistory == [src |-> <<>>, since |-> 0]

CacheHistory(o, o2, h) ==
    LET inserted == IF Len(o2.baseline_latencies) > Len(o.baseline_latencies) THEN 1 ELSE 0
    IN  IF o2.baseline_cache_count < o.baseline_cache_count + inserted
        THEN [src |-> o2.baseline_latencies, since |-> 0]
        ELSE [h EXCEPT !.since = @ + inserted]

\* what one processed sample did to the detector of an object: o before, o2 after
OpenEvent(o, o2) == ~o.in_anomaly /\ o2.in_anomaly
CloseEvent(o, o2) == o.in_anomaly /\ ~o2.in_anomaly
AppendEvent(o, o2) == Len(o2.detected_anomalies) > Len(o.detected_anomalies)
ExtendEvent(o, o2) ==
    o.in_anomaly /\ o2.in_anomaly /\ Len(o2.anomaly_window) > Len(o.anomaly_window)

ObserveClose(o, o2, fs, fs2) ==
    IF CloseEvent(o, o2)
    THEN [seen |-> TRUE, window |-> o.anomaly_window, baseline |-> o.baseline_latencies,
          persisted |-> AppendEvent(o, o2), saved |-> TotalRows(fs2) > TotalRows(fs)]
    ELSE last_close

NoStream == [phase |-> "none", N |-> 0, M |-> 0, opened |-> 0, appended |-> 0,
             stat |-> FALSE]

Bit(b) == IF b THEN 1 ELSE 0

\* the stream of samples since the detector, in NORMAL, met a latency >= T:
\* N latencies >= T (phase high), then M latencies < T (phase low)
ObserveStream(o, o2, latency) ==
    LET high == latency >= o.anomaly_threshold
        stat == ~high /\ (OpenEvent(o, o2) \/ ExtendEvent(o, o2))
    IN  IF latency = None THEN NoStream
        ELSE IF high /\ stream.phase = "high"
        THEN [stream EXCEPT !.N = @ + 1, !.opened = @ + Bit(OpenEvent(o, o2)),
                            !.appended = @ + Bit(AppendEvent(o, o2))]
        ELSE IF high
        THEN IF o.in_anomaly THEN NoStream
             ELSE [phase |-> "high", N |-> 1, M |-> 0, opened |-> Bit(OpenEvent(o, o2)),
                   appended |-> 0, stat |-> FALSE]
        ELSE IF stream.phase = "none" THEN NoStream
        ELSE [stream EXCEPT !.phase = "low", !.M = @ + 1,
                            !.opened = @ + Bit(OpenEvent(o, o2)),
                            !.appended = @ + Bit(AppendEvent(o, o2)),
                            !.stat = @ \/ stat]

----------------------------------------------------------------------------
(* Specification SpecDet: one monitor, one monitoring session, whole loop   *)
(* iterations; the probe results are the environment's choice.              *)

Latencies == {90, 100, 200}

Configs ==
    { [anomaly_threshold |-> 100, anomaly_min_samples |-> 3,
       anomaly_min_consecutive_normal |-> 1, anomaly_min_pings |-> 1],
      [anomaly_threshold |-> 110, anomaly_min_samples |-> 3,
       anomaly_min_consecutive_normal |-> 1, anomaly_min_pings |-> 1],
      [anomaly_threshold |-> 100, anomaly_min_samples |-> 3,
       anomaly_min_consecutive_normal |-> 2, anomaly_min_pings |-> 2] }

\* network_monitor_config.json: absent, or a document of keys and values
NoConfig == [exists |-> FALSE, doc |-> [k \in {} |-> 0]]

\* the environment: what the probes have returned so far, the calls made so far,
\* whether the logs directory accepts writes (writable), how many days have
\* passed and how many times the directory has changed state (days, faults),
\* the exception raised inside the last iteration (fault), and two histories:
\* the length of the current run of failed samples of the instance (fail_run)
\* and of the running loop (loop_run); the configuration file (config) and
\* whether save_config wrote it after the last change of settings (config_saved);
\* how many times save_settings ran on a monitoring instance (settings), and,
\* while an episode is open, the count of its samples by classification
\* (episode); whether a loop was ever started for the instance while an earlier
\* one was still running (overlap); from what the cached pair was computed
\* (cache); the samples taken before the budget of operations applies (warm)
InitEnv == [ticks |-> 0, runs |-> MaxRuns, last |-> None, feed |-> <<>>,
            starts |-> 0, stops |-> 0, writable |-> TRUE, days |-> 0, faults |-> 0,
            resets |-> 0, fault |-> "none", fail_run |-> 0, loop_run |-> 0,
            config |-> NoConfig, config_saved |-> FALSE, settings |-> 0,
            episode |-> NoEpisode, overlap |-> FALSE, cache |-> NoCacheHistory,
            warm |-> 0]

\* the thread that calls the manager: where it is inside stop_monitor / stop_all
\* (pc, op, todo), what its last call returned, and what it has been told since
\* the last start: the objects whose stop has returned (stopped), those whose
\* join returned before its timeout (joined), and whether stop_all has returned
\* what the caller's last add_monitor was given and got: the object returned,
\* whether it was created by the call, whether a main monitor was passed
NoAdd == [obj |-> 0, created |-> FALSE, has_main |-> FALSE]

InitCaller == [pc |-> "idle", op |-> "none", todo |-> <<>>, returned |-> "none",
               stopped |-> {}, joined |-> {}, all_stopped |-> FALSE,
               added |-> NoAdd]

InitCommon ==
    /\ monitors = [k \in {} |-> 0]
    /\ monitor_threads = [k \in {} |-> 0]
    /\ threads = <<>>
    /\ caller = InitCaller
    /\ network_log = EmptyFiles
    /\ anomaly_files = EmptyFiles
    /\ today = 0
    /\ now = 0
    /\ last_close = NoClose
    /\ stream = NoStream

InitDet ==
    /\ InitCommon
    /\ \E cfg \in Configs :
          objs = <<Configure(NetworkMonitor(<<"default">>, "Home WiFi", EmptyFiles, 0), cfg)>>
    /\ callbacks = <<<<>>>>
    /\ env = InitEnv

\* start_monitoring by the caller; the new thread enters monitor_loop (line 292)
DetStart ==
    /\ threads = <<>>
    /\ ~objs[1].monitoring
    /\ objs' = [objs EXCEPT ![1] = [start_monitoring(@, today, "")
                                        EXCEPT !.stats.start_time = Timestamp]]
    /\ threads' = <<[LoopThread(1) EXCEPT !.pc = "while"]>>
    /\ UNCHANGED <<monitors, monitor_threads, caller, callbacks, network_log,
                   anomaly_files, today, now, env, last_close, stream>>

\* one whole iteration of monitor_loop (lines 299-387) by thread i, with probe
\* result latency: the probe, the callback, the log record
Iteration(i, latency) ==
    LET m == threads[i].mon
        o == objs[m]
        p == loop_probe(o, threads[i].loc, latency, [d |-> today, t |-> now + 1],
                        anomaly_files, today)
        d == loop_deliver(p.self, p.loc, network_log)
    IN  /\ objs' = [objs EXCEPT ![m] = d.self]
        /\ threads' = [threads EXCEPT ![i].loc = p.loc]
        /\ callbacks' = [callbacks EXCEPT ![m] = Append(@, p.loc.data)]
        /\ anomaly_files' = p.fs
        /\ network_log' = d.log
        /\ last_close' = ObserveClose(o, p.self, anomaly_files, p.fs)
        /\ stream' = ObserveStream(o, p.self, latency)
        /\ now' = now + 1

DetTick(latency) ==
    /\ threads # <<>> /\ threads[1].pc = "while"
    /\ objs[1].monitoring
    /\ env.ticks < MaxTicks
    /\ latency = env.last \/ env.runs > 0 \/ env.ticks = 0
    /\ Iteration(1, latency)
    /\ env' = [env EXCEPT !.ticks = @ + 1, !.last = latency,
                          !.runs = IF latency = env.last \/ env.ticks = 0 THEN @ ELSE @ - 1,
                          !.episode = EpisodeHistory(objs[1], objs'[1], latency, @)]
    /\ UNCHANGED <<monitors, monitor_threads, caller, today>>

\* stop_monitoring by the caller
DetStop ==
    /\ objs[1].monitoring
    /\ LET r == stop_monitoring(objs[1], network_log)
       IN  /\ objs' = [objs EXCEPT ![1] = r.self]
           /\ network_log' = r.log
    /\ UNCHANGED <<monitors, monitor_threads, threads, caller, callbacks, anomaly_files,
                   today, now, env, last_close, stream>>

\* line 299: the loop finds monitoring False and ends
DetLoopExit ==
    /\ threads # <<>> /\ threads[1].pc = "while"
    /\ ~objs[1].monitoring
    /\ threads' = [threads EXCEPT ![1].pc = "done"]
    /\ UNCHANGED <<objs, monitors, monitor_threads, caller, callbacks, network_log,
                   anomaly_files, today, now, env, last_close, stream>>

NextDet ==
    \/ DetStart
    \/ \E latency \in Latencies : DetTick(latency)
    \/ DetStop
    \/ DetLoopExit

SpecDet == InitDet /\ [][NextDet]_vars

----------------------------------------------------------------------------
(* Claims about the detector, checked under SpecDet *)

Det == objs[1]

LastEpisode == Det.detected_anomalies[Len(Det.detected_anomalies)]

\* the percent increase of an episode window over the baseline, as the claims
\* state it: defined when the baseline holds at least 10 samples (the last 50
\* are used) and their mean is positive
IncDefined(window, baseline) ==
    Len(baseline) >= BaselineMinForStats /\ Sum(LastN(baseline, BaselineWindow)) > 0

\* increase < k percent, increase > 0, increase >= k percent (when defined):
\* (avg - bavg) / bavg * 100 with avg = Sum(window)/Len(window)
IncNum(window, baseline) ==
    LET b == LastN(baseline, BaselineWindow)
    IN  (Sum(window) * Len(b) - Sum(b) * Len(window)) * 100

IncDen(window, baseline) == Sum(LastN(baseline, BaselineWindow)) * Len(window)

\* the value the close computes: 0 when undefined
IncBelow(window, baseline, k) ==
    IF IncDefined(window, baseline)
    THEN IncNum(window, baseline) < k * IncDen(window, baseline)
    ELSE 0 < k

IncPositive(window, baseline) ==
    IncDefined(window, baseline) /\ IncNum(window, baseline) > 0

AvgBelow(window, k) == Sum(window) < k * Len(window)

StreamDone ==
    stream.phase = "low" /\ stream.M >= Det.anomaly_min_consecutive_normal

\* C1, as stated: a stream of N latencies >= T then M >= anomaly_min_consecutive_normal
\* latencies < T, fed to a monitor in NORMAL, opens exactly one episode and, if
\* N >= anomaly_min_pings, appends exactly one episode, with pings_affected = N.
C1_AsStated ==
    StreamDone =>
        /\ stream.opened = 1
        /\ (stream.N >= Det.anomaly_min_pings =>
                /\ stream.appended = 1
                /\ LastEpisode.pings_affected = stream.N)

\* C1, amended: the same stream, when the statistical criterion classifies none of
\* its M latencies < T as anomalous, opens exactly one episode, which closes with
\* N affected samples; and if N >= anomaly_min_pings and the percent increase over
\* the baseline is not strictly between 0 and anomaly_min_increase_percent, exactly
\* one episode is appended, with pings_affected = N.
C1_OneEpisode ==
    (StreamDone /\ ~stream.stat) =>
        /\ stream.opened = 1
        /\ last_close.seen /\ Len(last_close.window) = stream.N
        /\ ( ( /\ stream.N >= Det.anomaly_min_pings
               /\ ~( /\ IncPositive(last_close.window, last_close.baseline)
                     /\ IncBelow(last_close.window, last_close.baseline,
                                 Det.anomaly_min_increase_percent) ) ) =>
                /\ stream.appended = 1
                /\ LastEpisode.pings_affected = stream.N )

\* a stream of two or more high samples closed and appended, with a defined baseline
C1_Witness ==
    /\ StreamDone /\ ~stream.stat
    /\ stream.N >= 2 /\ stream.N >= Det.anomaly_min_pings
    /\ stream.appended = 1
    /\ Len(last_close.baseline) >= BaselineMinForStats

\* the retention condition as C2 states it (an undefined increase counts as 0 in
\* its third conjunct, as in the code)
C2_Retained(window, baseline) ==
    /\ Len(window) >= Det.anomaly_min_pings
    /\ \/ ~IncDefined(window, baseline)
       \/ ~IncBelow(window, baseline, Det.anomaly_min_increase_percent)
    /\ ~( /\ AvgBelow(window, Det.anomaly_threshold)
          /\ IncBelow(window, baseline, Det.anomaly_min_increase_percent) )

\* C2: at every close the episode is persisted (appended and written by
\* save_anomaly) if and only if it has enough affected samples, its percent
\* increase is at least anomaly_min_increase_percent or undefined, and it is not
\* both below the fixed threshold on average and below the increase bar.
C2_RetentionIff ==
    last_close.seen =>
        /\ last_close.persisted <=> C2_Retained(last_close.window, last_close.baseline)
        /\ last_close.saved <=> last_close.persisted

\* C3: whatever pings_affected is, an episode whose computed percent increase is
\* below anomaly_min_increase_percent and whose average latency is below the fixed
\* threshold is neither appended to detected_anomalies nor written.
C3_MarginalNeverPersisted ==
    ( /\ last_close.seen
      /\ IncBelow(last_close.window, last_close.baseline, Det.anomaly_min_increase_percent)
      /\ AvgBelow(last_close.window, Det.anomaly_threshold) ) =>
        ~last_close.persisted /\ ~last_close.saved

\* such an episode with enough affected samples to pass the first filter
C3_Witness ==
    /\ last_close.seen
    /\ IncBelow(last_close.window, last_close.baseline, Det.anomaly_min_increase_percent)
    /\ AvgBelow(last_close.window, Det.anomaly_threshold)
    /\ Len(last_close.window) >= Det.anomaly_min_pings

DetectorState(o) ==
    <<o.in_anomaly, o.anomaly_window, o.anomaly_normal_buffer, o.detected_anomalies>>

\* C5: stopping never force-closes an open episode: the step that stops the
\* monitor, and every step while it stays stopped, leaves in_anomaly,
\* anomaly_window, anomaly_normal_buffer and detected_anomalies unchanged and
\* writes no episode.
C5_StopKeepsEpisode ==
    [][ (threads # <<>> /\ ~objs'[1].monitoring) =>
            /\ DetectorState(objs'[1]) = DetectorState(objs[1])
            /\ anomaly_files' = anomaly_files ]_vars

\* stopped while an episode is open with some, but too few, normal samples buffered
C5_Witness ==
    /\ threads # <<>> /\ ~Det.monitoring
    /\ Det.in_anomaly
    /\ Len(Det.anomaly_normal_buffer) >= 1
    /\ Len(Det.anomaly_normal_buffer) < Det.anomaly_min_consecutive_normal

----------------------------------------------------------------------------
(* Specification SpecScn: the sample streams of the specification's          *)
(* scenarios, fed in order to a fresh monitor with the default parameters.  *)

ScenarioA == <<20, 25, 22, 150, 160, 155, 140, 30, 28, 31, 29, 33, 27, 30, 32, 31, 29>>

\* Scenario B: the same stream cut after three trailing normal samples
ScenarioB == SubSeq(ScenarioA, 1, 10)

\* the parameters the scenarios set on the fresh monitor
ScenarioConfigs ==
    { [anomaly_threshold |-> 100, anomaly_min_samples |-> DefaultMinSamples,
       anomaly_min_consecutive_normal |-> n, anomaly_min_pings |-> p] :
          n \in {9, DefaultMinConsecutiveNormal}, p \in {4, DefaultMinPings} }

InitScn ==
    /\ InitCommon
    /\ \E cfg \in ScenarioConfigs :
          objs = <<Configure(NetworkMonitor(<<"default">>, "Home WiFi", EmptyFiles, 0), cfg)>>
    /\ callbacks = <<<<>>>>
    /\ \E f \in {ScenarioA, ScenarioB} : env = [InitEnv EXCEPT !.feed = f]

\* one whole loop iteration whose probe returns the next latency of the stream
ScnTick ==
    /\ threads # <<>> /\ threads[1].pc = "while"
    /\ objs[1].monitoring
    /\ env.feed # <<>>
    /\ Iteration(1, Head(env.feed))
    /\ env' = [env EXCEPT !.feed = Tail(@), !.ticks = @ + 1]
    /\ UNCHANGED <<monitors, monitor_threads, caller, today>>

NextScn ==
    \/ DetStart
    \/ ScnTick
    \/ DetStop
    \/ DetLoopExit

SpecScn == InitScn /\ [][NextScn]_vars

\* the latencies delivered so far
Fed == [i \in 1..Len(callbacks[1]) |-> callbacks[1][i].latency]

ScenarioAParams(min_pings) ==
    /\ Det.anomaly_threshold = 100
    /\ Det.anomaly_min_consecutive_normal = 9
    /\ Det.anomaly_min_pings = min_pings
    /\ Det.anomaly_min_samples = DefaultMinSamples
    /\ Det.anomaly_min_increase_percent = DefaultMinIncreasePercent
    /\ Det.anomaly_deviation_multiplier = DefaultDeviationMultiplier

OneFixedEpisodeOfFour ==
    /\ Len(Det.detected_anomalies) = 1
    /\ Det.detected_anomalies[1].pings_affected = 4
    /\ Det.detected_anomalies[1].detection_method = "threshold fixo"

\* C4, as stated: Scenario A on a fresh monitor with threshold 100,
\* anomaly_min_consecutive_normal = 9 and every other parameter at its default
\* (anomaly_min_pings = 5) persists exactly one episode, with pings_affected = 4,
\* detected by the fixed threshold.
C4_AsStated ==
    (Fed = ScenarioA /\ ScenarioAParams(DefaultMinPings)) => OneFixedEpisodeOfFour

\* C4, amended: the same with anomaly_min_pings = 4.
C4_ScenarioA ==
    (Fed = ScenarioA /\ ScenarioAParams(4)) => OneFixedEpisodeOfFour

\* Scenario A fed to the end with anomaly_min_pings = 4
C4_Witness ==
    Fed = ScenarioA /\ ScenarioAParams(4) /\ Len(Det.detected_anomalies) = 1

----------------------------------------------------------------------------
(* DualWiFiMonitorManager *)

\* del self.monitor_threads[key]
DelKey(f, key) == [k \in DOMAIN f \ {key} |-> f[k]]

SetKey(f, key, v) == [k \in DOMAIN f \cup {key} |-> IF k = key THEN v ELSE f[k]]

\* the keys of self.monitors: the SSID itself, or f"{wifi_ssid}_monitor_{n}"
\* under force_new (n = None for the plain key)
Key(wifi_ssid) == [ssid |-> wifi_ssid, n |-> None]

UniqueKey(wifi_ssid, n) == [ssid |-> wifi_ssid, n |-> n]

\* list(self.monitors.keys()): insertion order, which is the order of creation
KeysInOrder(mons) ==
    LET RECURSIVE Order(_)
        Order(S) == IF S = {} THEN <<>>
                    ELSE LET k == CHOOSE x \in S : \A y \in S : mons[x] <= mons[y]
                         IN  <<k>> \o Order(S \ {k})
    IN  Order(DOMAIN mons)

\* a plausible slip: one of the six parameters is not copied
NewManagedMonitor_partial(wifi_ssid, n, has_main, main, fs, date) ==
    LET fresh == [NetworkMonitor(<<"wifi", wifi_ssid, n>>, wifi_ssid, fs, date)
                     EXCEPT !.anomaly_file = AnomalyFileName(wifi_ssid, date),
                            !.current_wifi_ssid = wifi_ssid,
                            !.enable_wifi_reconnect = FALSE,
                            !.last_known_wifi = ""]
    IN  IF has_main
        THEN [fresh EXCEPT
                 !.anomaly_threshold = main.anomaly_threshold,
                 !.anomaly_min_increase_percent = main.anomaly_min_increase_percent,
                 !.anomaly_min_pings = main.anomaly_min_pings,
                 !.anomaly_deviation_multiplier = main.anomaly_deviation_multiplier,
                 !.anomaly_min_consecutive_normal = main.anomaly_min_consecutive_normal,
                 !.enable_sound_alerts = FALSE,
                 !.enable_alerts = TRUE]
        ELSE fresh

\* lines 774-803: the monitor add_monitor constructs; main is the main monitor
\* whose anomaly settings are copied, has_main whether one was passed
NewManagedMonitor(wifi_ssid, n, has_main, main, fs, date) ==
    LET fresh == [NetworkMonitor(<<"wifi", wifi_ssid, n>>, wifi_ssid, fs, date)
                     EXCEPT !.anomaly_file = AnomalyFileName(wifi_ssid, date),
                            !.current_wifi_ssid = wifi_ssid,
                            !.enable_wifi_reconnect = FALSE,
                            !.last_known_wifi = ""]
    IN  IF has_main
        THEN [fresh EXCEPT
                 !.anomaly_threshold = main.anomaly_threshold,
                 !.anomaly_min_increase_percent = main.anomaly_min_increase_percent,
                 !.anomaly_min_pings = main.anomaly_min_pings,
                 !.anomaly_deviation_multiplier = main.anomaly_deviation_multiplier,
                 !.anomaly_min_samples = main.anomaly_min_samples,
                 !.anomaly_min_consecutive_normal = main.anomaly_min_consecutive_normal,
                 !.enable_sound_alerts = FALSE,
                 !.enable_alerts = TRUE]
        ELSE fresh

\* a plausible slip: a second monitor for an SSID already monitored reuses the
\* object of the first
add_monitor_aliasing(os, mons, wifi_ssid, has_main, main, force_new, fs, date) ==
    LET n == Cardinality(DOMAIN mons)
        same == {k \in DOMAIN mons : k.ssid = wifi_ssid}
        key == IF force_new THEN UniqueKey(wifi_ssid, n) ELSE Key(wifi_ssid)
    IN  IF same # {}
        THEN LET old == mons[CHOOSE k \in same : TRUE]
             IN  [os |-> os, mons |-> SetKey(mons, key, old), ret |-> old,
                  created |-> FALSE]
        ELSE [os |-> Append(os, NewManagedMonitor(wifi_ssid, n, has_main, main, fs, date)),
              mons |-> SetKey(mons, key, Len(os) + 1), ret |-> Len(os) + 1,
              created |-> TRUE]

\* add_monitor: [os, mons, ret, created] afterwards (os the objects, mons the
\* monitors dict, ret the monitor returned, created whether the call made it)
add_monitor(os, mons, wifi_ssid, has_main, main, force_new, fs, date) ==
    IF Key(wifi_ssid) \notin DOMAIN mons \/ force_new
    THEN LET n == Cardinality(DOMAIN mons)
             monitor == NewManagedMonitor(wifi_ssid, n, has_main, main, fs, date)
             key == IF force_new THEN UniqueKey(wifi_ssid, n) ELSE Key(wifi_ssid)
         IN  [os |-> Append(os, monitor),
              mons |-> SetKey(mons, key, Len(os) + 1),
              ret |-> Len(os) + 1, created |-> TRUE]
    ELSE [os |-> os, mons |-> mons, ret |-> mons[Key(wifi_ssid)], created |-> FALSE]

\* lines 830-837: start_monitor goes on to create the worker thread
start_monitor_accepts(os, mons, key) ==
    key \in DOMAIN mons /\ ~os[mons[key]].monitoring


----------------------------------------------------------------------------
(* Specification SpecMgr: a manager, the main monitor whose settings it     *)
(* copies, one thread calling the manager, and the worker and loop threads  *)
(* it starts, interleaved statement by statement.                           *)

Ssids == {"Home WiFi", "Cafe!"}

ProbeResults == {90, None}

InitMgr ==
    /\ InitCommon
    /\ objs = <<NetworkMonitor(<<"default">>, "", EmptyFiles, 0)>>
    /\ callbacks = <<<<>>>>
    /\ env = InitEnv

MgrUnchanged == <<today, now, last_close, stream>>

\* add_monitor(wifi_ssid, main_monitor = the main monitor)
MgrAdd(wifi_ssid) ==
    /\ caller.pc = "idle"
    /\ LET r == add_monitor(objs, monitors, wifi_ssid, TRUE, objs[1], FALSE,
                            anomaly_files, today)
       IN  /\ objs' = r.os
           /\ monitors' = r.mons
           /\ callbacks' = [i \in 1..Len(r.os) |->
                               IF i <= Len(callbacks) THEN callbacks[i] ELSE <<>>]
           /\ caller' = [caller EXCEPT !.returned = "add_monitor",
                                       !.added = [obj |-> r.ret, created |-> r.created,
                                                  has_main |-> TRUE]]
    /\ UNCHANGED <<monitor_threads, threads, network_log, anomaly_files, env, MgrUnchanged>>

\* start_monitor(key, callback), lines 830-852
MgrStart(wifi_ssid) ==
    LET key == Key(wifi_ssid) IN
    /\ caller.pc = "idle"
    /\ env.starts < MaxStarts
    /\ env' = [env EXCEPT !.starts = @ + 1]
    /\ IF start_monitor_accepts(objs, monitors, key)
       THEN /\ threads' = Append(threads, WorkerThread(monitors[key]))
            /\ monitor_threads' = SetKey(monitor_threads, key, Len(threads) + 1)
            /\ caller' = [caller EXCEPT !.returned = "start_monitor True",
                                        !.stopped = @ \ {monitors[key]},
                                        !.joined = @ \ {monitors[key]},
                                        !.all_stopped = FALSE]
       ELSE /\ caller' = [caller EXCEPT !.returned = "start_monitor False"]
            /\ UNCHANGED <<threads, monitor_threads>>
    /\ UNCHANGED <<objs, monitors, callbacks, network_log, anomaly_files, MgrUnchanged>>

\* the call of stop_monitor(key)
MgrStop(wifi_ssid) ==
    /\ caller.pc = "idle"
    /\ env.stops < MaxStops
    /\ env' = [env EXCEPT !.stops = @ + 1]
    /\ caller' = [caller EXCEPT !.pc = "stop", !.op = "stop_monitor",
                                !.todo = <<Key(wifi_ssid)>>]
    /\ UNCHANGED <<objs, monitors, monitor_threads, threads, callbacks, network_log,
                   anomaly_files, MgrUnchanged>>

\* the call of stop_all(), line 870: the keys are listed once, at the call
MgrStopAll ==
    /\ caller.pc = "idle"
    /\ env.stops < MaxStops
    /\ env' = [env EXCEPT !.stops = @ + 1]
    /\ caller' = IF DOMAIN monitors = {}
                 THEN [caller EXCEPT !.returned = "stop_all", !.all_stopped = TRUE]
                 ELSE [caller EXCEPT !.pc = "stop", !.op = "stop_all",
                                     !.todo = KeysInOrder(monitors)]
    /\ UNCHANGED <<objs, monitors, monitor_threads, threads, callbacks, network_log,
                   anomaly_files, MgrUnchanged>>

\* stop_monitor has finished with the key at the head of todo
KeyDone(c, stopped_objs, joined_objs) ==
    LET rest == Tail(c.todo)
        c2 == [c EXCEPT !.todo = rest, !.stopped = @ \cup stopped_objs,
                        !.joined = @ \cup joined_objs]
    IN  IF rest = <<>>
        THEN [c2 EXCEPT !.pc = "idle", !.returned = c.op,
                        !.all_stopped = (c.op = "stop_all")]
        ELSE [c2 EXCEPT !.pc = "stop"]

\* stop_monitor, lines 856-858: monitor.stop_monitoring() in the caller's thread
MgrSignal ==
    /\ caller.pc = "stop"
    /\ LET key == Head(caller.todo) IN
       IF key \in DOMAIN monitors
       THEN LET m == monitors[key]
                r == stop_monitoring(objs[m], network_log)
            IN  /\ objs' = [objs EXCEPT ![m] = r.self]
                /\ network_log' = r.log
                /\ caller' = IF key \in DOMAIN monitor_threads
                             THEN [caller EXCEPT !.pc = "join"]
                             ELSE KeyDone(caller, {m}, {})
       ELSE /\ caller' = KeyDone(caller, {}, {})
            /\ UNCHANGED <<objs, network_log>>
    /\ UNCHANGED <<monitors, monitor_threads, threads, callbacks, anomaly_files, env,
                   MgrUnchanged>>

\* stop_monitor, lines 861-864: thread.join(timeout=2.0) returns, because the
\* thread has ended or because two seconds have passed; the handle is deleted
MgrJoin ==
    /\ caller.pc = "join"
    /\ LET key == Head(caller.todo)
           m == monitors[key]
           ended == ~Alive(threads[monitor_threads[key]])
       IN  /\ monitor_threads' = DelKey(monitor_threads, key)
           /\ caller' = KeyDone(caller, {m}, IF ended THEN {m} ELSE {})
    /\ UNCHANGED <<objs, monitors, threads, callbacks, network_log, anomaly_files, env,
                   MgrUnchanged>>

\* _monitor_thread_worker reaches line 456 of start_monitoring: if not self.monitoring
WorkerCheck(i) ==
    /\ threads[i].kind = "worker" /\ threads[i].pc = "start"
    /\ threads' = [threads EXCEPT ![i].pc =
                      IF objs[threads[i].mon].monitoring THEN "done" ELSE "launch"]
    /\ UNCHANGED <<objs, monitors, monitor_threads, caller, callbacks, network_log,
                   anomaly_files, env, MgrUnchanged>>

\* lines 457-469: monitoring = True, the anomaly file of the day, and the thread
\* of monitor_loop is started; start_monitoring returns and the worker ends
WorkerLaunch(i) ==
    /\ threads[i].kind = "worker" /\ threads[i].pc = "launch"
    /\ LET m == threads[i].mon IN
       /\ objs' = [objs EXCEPT ![m] = start_monitoring(@, today, "")]   \* wifi_ssid is set: netsh is not asked
       /\ threads' = Append([threads EXCEPT ![i].pc = "done"], LoopThread(m))
    /\ UNCHANGED <<monitors, monitor_threads, caller, callbacks, network_log,
                   anomaly_files, env, MgrUnchanged>>

\* line 292
LoopBegin(i) ==
    /\ threads[i].kind = "loop" /\ threads[i].pc = "start"
    /\ objs' = [objs EXCEPT ![threads[i].mon].stats.start_time = Timestamp]
    /\ threads' = [threads EXCEPT ![i].pc = "while"]
    /\ UNCHANGED <<monitors, monitor_threads, caller, callbacks, network_log,
                   anomaly_files, env, MgrUnchanged>>

\* line 299: while self.monitoring
LoopWhile(i) ==
    /\ threads[i].kind = "loop" /\ threads[i].pc = "while"
    /\ threads' = [threads EXCEPT ![i].pc =
                      IF objs[threads[i].mon].monitoring THEN "ping" ELSE "done"]
    /\ UNCHANGED <<objs, monitors, monitor_threads, caller, callbacks, network_log,
                   anomaly_files, env, MgrUnchanged>>

\* lines 300-376: the probe returns latency; the sample is counted and recorded
LoopProbe(i, latency) ==
    /\ threads[i].kind = "loop" /\ threads[i].pc = "ping"
    /\ LET m == threads[i].mon
           p == loop_probe(objs[m], threads[i].loc, latency, Timestamp,
                           anomaly_files, today)
       IN  /\ objs[m].stats.total_pings < MaxPings
           /\ objs' = [objs EXCEPT ![m] = p.self]
           /\ threads' = [threads EXCEPT ![i].loc = p.loc, ![i].pc = "deliver"]
           /\ anomaly_files' = p.fs
    /\ UNCHANGED <<monitors, monitor_threads, caller, callbacks, network_log, env,
                   MgrUnchanged>>

\* lines 354/377-387: callback(data), packet loss, the log record, the sleep
LoopDeliver(i) ==
    /\ threads[i].kind = "loop" /\ threads[i].pc = "deliver"
    /\ LET m == threads[i].mon
           d == loop_deliver(objs[m], threads[i].loc, network_log)
       IN  /\ callbacks' = [callbacks EXCEPT ![m] = Append(@, threads[i].loc.data)]
           /\ objs' = [objs EXCEPT ![m] = d.self]
           /\ network_log' = d.log
    /\ threads' = [threads EXCEPT ![i].pc = "while"]
    /\ UNCHANGED <<monitors, monitor_threads, caller, anomaly_files, env, MgrUnchanged>>

NextMgr ==
    \/ \E wifi_ssid \in Ssids : MgrAdd(wifi_ssid)
    \/ \E wifi_ssid \in Ssids : MgrStart(wifi_ssid)
    \/ \E wifi_ssid \in Ssids : MgrStop(wifi_ssid)
    \/ MgrStopAll
    \/ MgrSignal
    \/ MgrJoin
    \/ \E i \in DOMAIN threads : WorkerCheck(i)
    \/ \E i \in DOMAIN threads : WorkerLaunch(i)
    \/ \E i \in DOMAIN threads : LoopBegin(i)
    \/ \E i \in DOMAIN threads : LoopWhile(i)
    \/ \E i \in DOMAIN threads, latency \in ProbeResults : LoopProbe(i, latency)
    \/ \E i \in DOMAIN threads : LoopDeliver(i)

SpecMgr == InitMgr /\ [][NextMgr]_vars

\* the loop threads of object m that are inside an iteration of the while loop
ProbingLoopsOf(m) == {i \in LoopsOf(m) : threads[i].pc \in {"ping", "deliver"}}

ManagedObjs == {monitors[k] : k \in DOMAIN monitors}

\* C6: once stop_monitor has returned for an instance, and until it is started
\* again, the instance's log_buffer is empty: every probed sample has its record
\* in the probe log.
C6_FlushedAfterStop ==
    \A m \in caller.stopped : objs[m].log_buffer = <<>>

\* C7: under any interleaving of start and stop calls, at most one probing loop
\* is ever active for a given monitor instance.
C7_OneLoopPerMonitor ==
    \A m \in ManagedObjs : Cardinality(ProbingLoopsOf(m)) <= 1

\* C8: the thread stored in monitor_threads[key] is alive for as long as a probing
\* loop of that instance is running, so once stop_monitor's join has returned
\* without timing out (and until the next start) no loop of the instance is alive.
C8_JoinWaitsForLoop ==
    /\ \A k \in DOMAIN monitor_threads :
          ActiveLoopsOf(monitors[k]) # {} => Alive(threads[monitor_threads[k]])
    /\ \A m \in caller.joined : ActiveLoopsOf(m) = {}

\* C9: after stop_all has returned, with no start issued afterwards, every monitor
\* of the manager has monitoring = False.
C9_AllStopped ==
    caller.all_stopped => \A m \in ManagedObjs : ~objs[m].monitoring

\* C10: after stop_all has returned, with no start issued afterwards, the number
\* of callbacks delivered for each monitor equals its stats['total_pings'].
C10_CallbacksEqualPings ==
    caller.all_stopped =>
        \A m \in ManagedObjs : Len(callbacks[m]) = objs[m].stats.total_pings

----------------------------------------------------------------------------
(* Specification SpecDual: a manager, the main monitor used as template, and *)
(* the two managed monitors of the dual mode, added with or without the      *)
(* template and with or without force_new; the calls and the loop iterations *)
(* run one at a time, each to its end.                                       *)

\* the manager monitors 2 networks (line 762)
DualMonitors == 2
MaxDualPings == 2

\* the six anomaly parameters a caller sets on the main monitor
TemplateConfig ==
    [anomaly_threshold |-> 90, anomaly_min_increase_percent |-> 40,
     anomaly_min_pings |-> 1, anomaly_deviation_multiplier |-> [s |-> 14, n |-> 5],
     anomaly_min_samples |-> 2, anomaly_min_consecutive_normal |-> 1]

AnomalyParams(o) ==
    [anomaly_threshold |-> o.anomaly_threshold,
     anomaly_min_increase_percent |-> o.anomaly_min_increase_percent,
     anomaly_min_pings |-> o.anomaly_min_pings,
     anomaly_deviation_multiplier |-> o.anomaly_deviation_multiplier,
     anomaly_min_samples |-> o.anomaly_min_samples,
     anomaly_min_consecutive_normal |-> o.anomaly_min_consecutive_normal]

SetAnomalyParams(self, cfg) ==
    [self EXCEPT !.anomaly_threshold = cfg.anomaly_threshold,
                 !.anomaly_min_increase_percent = cfg.anomaly_min_increase_percent,
                 !.anomaly_min_pings = cfg.anomaly_min_pings,
                 !.anomaly_deviation_multiplier = cfg.anomaly_deviation_multiplier,
                 !.anomaly_min_samples = cfg.anomaly_min_samples,
                 !.anomaly_min_consecutive_normal = cfg.anomaly_min_consecutive_normal]

InitDual == InitMgr

\* the caller assigns the main monitor's anomaly parameters
DualSetTemplate(cfg) ==
    /\ AnomalyParams(objs[1]) # cfg
    /\ objs' = [objs EXCEPT ![1] = SetAnomalyParams(@, cfg)]
    /\ UNCHANGED <<monitors, monitor_threads, threads, caller, callbacks, network_log,
                   anomaly_files, env, MgrUnchanged>>

\* add_monitor(wifi_ssid, main_monitor, force_new)
DualAdd(wifi_ssid, has_main, force_new) ==
    /\ Cardinality(DOMAIN monitors) < DualMonitors \/ ~force_new
    /\ Len(objs) <= DualMonitors
    /\ LET r == add_monitor(objs, monitors, wifi_ssid, has_main, objs[1], force_new,
                            anomaly_files, today)
       IN  /\ objs' = r.os
           /\ monitors' = r.mons
           /\ callbacks' = [i \in 1..Len(r.os) |->
                               IF i <= Len(callbacks) THEN callbacks[i] ELSE <<>>]
           /\ caller' = [caller EXCEPT !.added = [obj |-> r.ret, created |-> r.created,
                                                  has_main |-> has_main]]
    /\ UNCHANGED <<monitor_threads, threads, network_log, anomaly_files, env, MgrUnchanged>>

\* start_monitor(key, callback) accepted: the worker runs start_monitoring and
\* ends, the loop thread reaches the while of monitor_loop
DualStart(key) ==
    /\ start_monitor_accepts(objs, monitors, key)
    /\ ActiveLoopsOf(monitors[key]) = {}
    /\ env.starts < MaxStarts
    /\ env' = [env EXCEPT !.starts = @ + 1]
    /\ LET m == monitors[key] IN
       /\ objs' = [objs EXCEPT ![m] = [start_monitoring(@, today, "")
                                          EXCEPT !.stats.start_time = Timestamp]]
       /\ threads' = threads \o <<[WorkerThread(m) EXCEPT !.pc = "done"],
                                  [LoopThread(m) EXCEPT !.pc = "while"]>>
       /\ monitor_threads' = SetKey(monitor_threads, key, Len(threads) + 1)
    /\ UNCHANGED <<monitors, caller, callbacks, network_log, anomaly_files,
                   MgrUnchanged>>

\* one whole iteration of the loop of thread i (lines 299-387)
DualTick(i, latency) ==
    /\ threads[i].kind = "loop" /\ threads[i].pc = "while"
    /\ objs[threads[i].mon].monitoring
    /\ env.ticks < MaxDualPings
    /\ LET m == threads[i].mon
           p == loop_probe(objs[m], threads[i].loc, latency, Timestamp, anomaly_files,
                           today)
           d == loop_deliver(p.self, p.loc, network_log)
       IN  /\ objs' = [objs EXCEPT ![m] = d.self]
           /\ threads' = [threads EXCEPT ![i].loc = p.loc]
           /\ callbacks' = [callbacks EXCEPT ![m] = Append(@, p.loc.data)]
           /\ anomaly_files' = p.fs
           /\ network_log' = d.log
    /\ env' = [env EXCEPT !.ticks = @ + 1]
    /\ UNCHANGED <<monitors, monitor_threads, caller, MgrUnchanged>>

\* stop_monitor(key) to its end, and the loop, which was asleep between two
\* iterations, finds monitoring False (line 299) and ends
DualStop(key) ==
    /\ key \in DOMAIN monitors
    /\ objs[monitors[key]].monitoring
    /\ LET r == stop_monitoring(objs[monitors[key]], network_log)
       IN  /\ objs' = [objs EXCEPT ![monitors[key]] = r.self]
           /\ network_log' = r.log
    /\ monitor_threads' = DelKey(monitor_threads, key)
    /\ threads' = [i \in DOMAIN threads |->
                      IF threads[i].mon = monitors[key]
                      THEN [threads[i] EXCEPT !.pc = "done"] ELSE threads[i]]
    /\ UNCHANGED <<monitors, caller, callbacks, anomaly_files, env, MgrUnchanged>>

NextDual ==
    \/ DualSetTemplate(TemplateConfig)
    \/ \E wifi_ssid \in Ssids, has_main \in BOOLEAN, force_new \in BOOLEAN :
          DualAdd(wifi_ssid, has_main, force_new)
    \/ \E key \in DOMAIN monitors : DualStart(key)
    \/ \E i \in DOMAIN threads, latency \in ProbeResults : DualTick(i, latency)
    \/ \E key \in DOMAIN monitors : DualStop(key)

SpecDual == InitDual /\ [][NextDual]_vars

\* the containers and fields of an instance that its own samples fill
InstanceData(o) ==
    <<o.stats, o.ping_history, o.baseline_latencies, DetectorState(o), o.log_buffer>>

\* C11: monitor instances are isolated: every key of the manager names its own
\* object, and no step (a tick, a start, a stop, an add_monitor) changes the
\* stats, ping_history, baseline, detector state, log_buffer or
\* detected_anomalies of more than one instance.
C11_Isolated ==
    [][ /\ \A k1, k2 \in DOMAIN monitors' : k1 # k2 => monitors'[k1] # monitors'[k2]
        /\ \A k1, k2 \in DOMAIN monitors :
              (k1 # k2 /\ InstanceData(objs'[monitors'[k1]]) # InstanceData(objs[monitors[k1]]))
                 => InstanceData(objs'[monitors'[k2]]) = InstanceData(objs[monitors[k2]]) ]_vars

\* two instances for the same SSID, both with samples of their own
C11_Witness ==
    \E k1, k2 \in DOMAIN monitors :
        /\ k1 # k2 /\ k1.ssid = k2.ssid
        /\ objs[monitors[k1]].stats.total_pings > 0
        /\ objs[monitors[k2]].stats.total_pings > 0
        /\ objs[monitors[k1]].ping_history # objs[monitors[k2]].ping_history

\* C15: add_monitor with a template copies the template's six anomaly parameters
\* into the instance it creates, and a later change of the template's parameters
\* leaves the parameters of every instance unchanged.
C15_CopiedByValue ==
    [][ /\ (Len(objs') > Len(objs) /\ caller'.added.has_main)
              => AnomalyParams(objs'[Len(objs')]) = AnomalyParams(objs[1])
        /\ AnomalyParams(objs'[1]) # AnomalyParams(objs[1])
              => \A j \in 2..Len(objs) : AnomalyParams(objs'[j]) = AnomalyParams(objs[j]) ]_vars

\* one instance created from the template before its parameters were changed,
\* another one created from it afterwards (sound alerts off: made with a template)
C15_Witness ==
    \E j, k \in 2..Len(objs) :
        /\ ~objs[j].enable_sound_alerts /\ ~objs[k].enable_sound_alerts
        /\ AnomalyParams(objs[1]) = TemplateConfig
        /\ AnomalyParams(objs[j]) # TemplateConfig
        /\ AnomalyParams(objs[k]) = TemplateConfig
        /\ objs[j].stats.total_pings > 0

\* C16: every monitor created by add_monitor, with or without a template, has
\* automatic reconnection disabled, no remembered Wi-Fi, and sound alerts disabled.
C16_QuietMonitors ==
    \A m \in ManagedObjs :
        /\ ~objs[m].enable_wifi_reconnect
        /\ objs[m].last_known_wifi = ""
        /\ ~objs[m].enable_sound_alerts

----------------------------------------------------------------------------
(* Specification SpecOps: one monitor started and stopped directly, whole    *)
(* loop iterations whose probe fails or returns a latency, whose callback    *)
(* may raise, and reset_stats between iterations. With anomaly_min_samples   *)
(* = 1 the detector itself raises on its first samples. The directory of the *)
(* logs is writable or not at the beginning and may change.                  *)

MaxOps == 5

\* the operations done so far: starts, iterations, resets, changes of the disk,
\* midnights, saved settings
OpsDone == env.starts + env.ticks + env.resets + env.faults + env.days + env.settings

OpsResults == {None, 90, 200}

OpsConfigs ==
    { [anomaly_threshold |-> 100, anomaly_min_samples |-> n,
       anomaly_min_consecutive_normal |-> 1, anomaly_min_pings |-> 1,
       log_buffer_max |-> 2] : n \in {1, 3} }

InitOps ==
    /\ InitCommon
    /\ \E cfg \in OpsConfigs :
          objs = <<[Configure(NetworkMonitor(<<"default">>, "Home WiFi", EmptyFiles, 0), cfg)
                       EXCEPT !.log_buffer_max = cfg.log_buffer_max]>>
    /\ callbacks = <<<<>>>>
    /\ \E writable \in BOOLEAN : env = [InitEnv EXCEPT !.writable = writable]

\* start_monitoring by the caller (the earlier loop, if any, has ended); the new
\* thread enters monitor_loop
OpsStart ==
    /\ ~objs[1].monitoring
    /\ ActiveLoopsOf(1) = {}
    /\ OpsDone < MaxOps
    /\ objs' = [objs EXCEPT ![1] = [start_monitoring(@, today, "")
                                        EXCEPT !.stats.start_time = Timestamp]]
    /\ threads' = Append(threads, [LoopThread(1) EXCEPT !.pc = "while"])
    /\ env' = [env EXCEPT !.starts = @ + 1, !.loop_run = 0]
    /\ UNCHANGED <<monitors, monitor_threads, caller, callbacks, network_log,
                   anomaly_files, today, now, last_close, stream>>

\* one whole iteration of monitor_loop by thread i: the probe returns latency,
\* the callback raises or returns
OpsTick(i, latency, callback_raises) ==
    /\ threads[i].pc = "while"
    /\ objs[1].monitoring
    /\ OpsDone < MaxOps
    /\ LET o == objs[1]
           loc == threads[i].loc
           timestamp == [d |-> today, t |-> now + 1]
       IN  IF loop_probe_raises(o, loc, latency)
           THEN LET p == loop_probe_raised(o, loc, latency)
                IN  /\ objs' = [objs EXCEPT ![1] = p.self]
                    /\ threads' = [threads EXCEPT ![i].loc = p.loc,
                                                  ![i].pc = on_exception(@)]
                    /\ env' = [env EXCEPT !.ticks = @ + 1, !.last = latency,
                                          !.fault = "detector", !.fail_run = 0,
                                          !.loop_run = 0,
                                          !.cache = CacheHistory(o, p.self, @)]
                    /\ ~callback_raises
                    /\ UNCHANGED <<callbacks, anomaly_files, network_log, last_close,
                                   stream>>
           ELSE LET p == loop_probe(o, loc, latency, timestamp, anomaly_files, today)
                    d == IF callback_raises THEN [self |-> p.self, log |-> network_log]
                         ELSE loop_deliver(p.self, p.loc, network_log)
                IN  /\ objs' = [objs EXCEPT ![1] = d.self]
                    /\ threads' = [threads EXCEPT
                                      ![i].loc = p.loc,
                                      ![i].pc = IF callback_raises THEN on_exception(@)
                                                ELSE @]
                    /\ callbacks' = [callbacks EXCEPT ![1] = Append(@, p.loc.data)]
                    /\ anomaly_files' = p.fs
                    /\ network_log' = d.log
                    /\ last_close' = ObserveClose(o, p.self, anomaly_files, p.fs)
                    /\ stream' = ObserveStream(o, p.self, latency)
                    /\ env' = [env EXCEPT
                                  !.ticks = @ + 1, !.last = latency,
                                  !.fault = IF callback_raises THEN "callback" ELSE "none",
                                  !.fail_run = IF latency = None THEN @ + 1 ELSE 0,
                                  !.loop_run = IF latency = None THEN @ + 1 ELSE 0,
                                  !.episode = IF latency = None THEN @
                                              ELSE EpisodeHistory(o, p.self, latency, @),
                                  !.cache = CacheHistory(o, p.self, @)]
    /\ now' = now + 1
    /\ UNCHANGED <<monitors, monitor_threads, caller, today>>

\* stop_monitoring by the caller
OpsStop ==
    /\ objs[1].monitoring
    /\ LET r == stop_monitoring(objs[1], network_log)
       IN  /\ objs' = [objs EXCEPT ![1] = r.self]
           /\ network_log' = r.log
    /\ UNCHANGED <<monitors, monitor_threads, threads, caller, callbacks, anomaly_files,
                   today, now, env, last_close, stream>>

\* line 299: the loop finds monitoring False and ends
OpsLoopExit(i) ==
    /\ threads[i].pc = "while"
    /\ ~objs[1].monitoring
    /\ threads' = [threads EXCEPT ![i].pc = "done"]
    /\ UNCHANGED <<objs, monitors, monitor_threads, caller, callbacks, network_log,
                   anomaly_files, today, now, env, last_close, stream>>

\* reset_stats by the caller, between two iterations (it draws on the same
\* budget of steps as the iterations)
OpsReset ==
    /\ OpsDone < MaxOps
    /\ objs[1].stats.total_pings > 0
    /\ objs' = [objs EXCEPT ![1] = reset_stats(@)]
    /\ env' = [env EXCEPT !.resets = @ + 1]
    /\ UNCHANGED <<monitors, monitor_threads, threads, caller, callbacks, network_log,
                   anomaly_files, today, now, last_close, stream>>

\* the destination of the logs becomes unwritable, or writable again
OpsDisk ==
    /\ OpsDone < MaxOps
    /\ env' = [env EXCEPT !.writable = ~@, !.faults = @ + 1]
    /\ UNCHANGED <<objs, monitors, monitor_threads, threads, caller, callbacks, network_log,
                   anomaly_files, today, now, last_close, stream>>

NextOps ==
    \/ OpsDisk
    \/ OpsStart
    \/ \E i \in DOMAIN threads, latency \in OpsResults, callback_raises \in BOOLEAN :
          OpsTick(i, latency, callback_raises)
    \/ OpsStop
    \/ \E i \in DOMAIN threads : OpsLoopExit(i)
    \/ OpsReset

SpecOps == InitOps /\ [][NextOps]_vars

\* the loop thread runs: it is not kept forever from the test of line 299
SpecOpsFair == SpecOps /\ WF_vars(\E i \in DOMAIN threads : OpsLoopExit(i))

----------------------------------------------------------------------------
(* Claims on SpecOps                                                         *)

\* C12: after every completed iteration of the loop, whether the probe failed
\* or succeeded and whether the detector or the callback raised,
\* successful_pings + failed_pings = total_pings
C12_CountsAddUp ==
    objs[1].stats.successful_pings + objs[1].stats.failed_pings
        = objs[1].stats.total_pings

\* C12 is exercised: successes and failures have both been counted and the last
\* iteration was cut short by an exception
C12_Witness ==
    /\ objs[1].stats.successful_pings > 0
    /\ objs[1].stats.failed_pings > 0
    /\ env.fault # "none"

\* C13: resetting an instance that has just been reset changes neither its
\* session statistics nor its retained latencies, and a reset leaves
\* detected_anomalies as it was
C13_ResetIdempotent ==
    LET once == reset_stats(objs[1])
        twice == reset_stats(once)
    IN  /\ twice.stats = once.stats
        /\ twice.ping_history = once.ping_history
        /\ once.stats = InitialStats
        /\ once.ping_history = <<>>
        /\ once.detected_anomalies = objs[1].detected_anomalies
        /\ twice.detected_anomalies = objs[1].detected_anomalies

\* C13 is exercised: reset_stats has run on an instance that holds a recorded
\* episode
C13_Witness ==
    /\ env.resets > 0
    /\ objs[1].stats.total_pings = 0
    /\ objs[1].detected_anomalies # <<>>

\* the detector found the sample of the step anomalous: an episode is open
\* afterwards and its confirmation buffer is empty (lines 521-538)
FoundAnomalous == objs'[1].in_anomaly /\ objs'[1].anomaly_normal_buffer = <<>>

\* C14: in an iteration whose probe succeeded and in which the detector finds
\* fewer than anomaly_min_samples entries in baseline_latencies (the sample
\* itself included when it joined the baseline), the cached mean and standard
\* deviation are not computed, the detector does not raise, and the sample is
\* found anomalous only if its latency reaches the fixed threshold
C14_NoStatisticsBeforeMinSamples ==
    [][\A i \in DOMAIN threads, latency \in OpsResults \ {None}, callback_raises \in BOOLEAN :
          ( /\ OpsTick(i, latency, callback_raises)
            /\ Len(objs'[1].baseline_latencies) < objs[1].anomaly_min_samples ) =>
              /\ objs'[1].cached_baseline_mean = objs[1].cached_baseline_mean
              /\ objs'[1].cached_baseline_stdev = objs[1].cached_baseline_stdev
              /\ env'.fault # "detector"
              /\ FoundAnomalous => latency >= objs[1].anomaly_threshold]_vars

\* C14 is exercised: a latency under the fixed threshold has been classified
\* while the baseline was short of anomaly_min_samples
C14_Witness ==
    /\ env.last # None /\ env.last < objs[1].anomaly_threshold
    /\ env.fault = "none"
    /\ Len(objs[1].baseline_latencies) \in 1..(objs[1].anomaly_min_samples - 1)
    /\ ~objs[1].in_anomaly

\* C19: a loop thread ends only in a step taken while monitoring is False, so
\* that no failed probe, no exception of the detector or of the callback and no
\* unwritable destination ends it; and once monitoring is False the loop thread
\* ends (no start happens before it has)
C19_OnlyStopEndsLoop ==
    /\ [][\A i \in DOMAIN threads :
             (threads[i].pc = "while" /\ threads'[i].pc # "while") => ~objs[1].monitoring]_vars
    /\ (~objs[1].monitoring /\ ActiveLoopsOf(1) # {}) ~> (ActiveLoopsOf(1) = {})

\* C19 is exercised: a loop whose last iteration was cut short by an exception
\* while the destination was unwritable has ended after stop_monitoring
C19_Witness ==
    /\ threads # <<>>
    /\ threads[1].pc = "done"
    /\ env.fault # "none"
    /\ ~env.writable
    /\ objs[1].stats.failed_pings > 0

\* the sample the iteration of thread i has handed to the callback
Delivered(i) == threads'[i].loc.data

\* C20 as stated: a delivered sample carries the connectivity alert exactly when
\* it is a failed probe and at least the third of the failures the instance has
\* met in a row, a successful probe being all that ends such a run
C20_AsStated ==
    [][\A i \in DOMAIN threads, latency \in OpsResults, callback_raises \in BOOLEAN :
          (OpsTick(i, latency, callback_raises) /\ env'.fault # "detector") =>
              ( Delivered(i).alert = "connection"
                  <=> (latency = None /\ env'.fail_run >= ConnectivityAlertAfter) )]_vars

\* C20, amended: a delivered sample carries the connectivity alert exactly when
\* it is a failed probe and at least the third failure in a row since the
\* probing loop that delivers it was started; a successful probe ends the run,
\* and the state of the anomaly detector plays no part
C20_ThirdFailureOfTheLoop ==
    [][\A i \in DOMAIN threads, latency \in OpsResults, callback_raises \in BOOLEAN :
          (OpsTick(i, latency, callback_raises) /\ env'.fault # "detector") =>
              ( Delivered(i).alert = "connection"
                  <=> (latency = None /\ env'.loop_run >= ConnectivityAlertAfter) )]_vars

\* C20 is exercised: the third failure in a row has been delivered with the
\* alert while the detector holds an open episode
C20_Witness ==
    /\ callbacks[1] # <<>>
    /\ callbacks[1][Len(callbacks[1])].alert = "connection"
    /\ env.last = None
    /\ env.loop_run >= ConnectivityAlertAfter
    /\ objs[1].in_anomaly

\* the records written so far to the files of the probe log
WrittenRecords(log) == UNION {{log[f][k] : k \in 2..Len(log[f])} : f \in DOMAIN log}

\* the rows at the end of some file of log are q followed by k more
EndsWith(log, q, k) ==
    \E f \in DOMAIN log :
        /\ Len(log[f]) >= Len(q) + k
        /\ SubSeq(log[f], Len(log[f]) - Len(q) - k + 1, Len(log[f]) - k) = q

\* an iteration that reaches log_to_file (line 380): no exception before it
LoggingTick ==
    /\ \E i \in DOMAIN threads, latency \in OpsResults : OpsTick(i, latency, FALSE)
    /\ env'.fault = "none"

\* C18: no step discards a record of log_buffer that has not been written; a
\* step taken while the destination is unwritable writes nothing, keeps every
\* buffered record in place, adds the record of the sample when it is an
\* iteration, and leaves the loop running; and the first flush attempted once
\* the destination is writable (by a full buffer or by stop_monitoring) writes
\* all the records kept, in order, and empties the buffer
C18_FailedFlushKeepsRecords ==
    [][LET before == objs[1].log_buffer
           after == objs'[1].log_buffer
       IN  /\ \A k \in DOMAIN before :
                 \/ k \in DOMAIN after /\ after[k] = before[k]
                 \/ before[k] \in WrittenRecords(network_log')
           /\ ~env.writable =>
                 /\ network_log' = network_log
                 /\ Len(after) >= Len(before)
                 /\ SubSeq(after, 1, Len(before)) = before
                 /\ LoggingTick => Len(after) = Len(before) + 1
                 /\ objs[1].monitoring =>
                       \A i \in DOMAIN threads :
                           threads[i].pc = "while" => threads'[i].pc = "while"
           /\ (env.writable /\ LoggingTick /\ Len(before) + 1 >= objs[1].log_buffer_max) =>
                 after = <<>> /\ EndsWith(network_log', before, 1)
           /\ (env.writable /\ OpsStop) =>
                 after = <<>> /\ (before # <<>> => EndsWith(network_log', before, 0))]_vars

\* C18 is exercised: in one run of the loop three samples were recorded, the
\* flush of the full buffer failed while the destination was unwritable, and
\* after the destination became writable all three records are in the file
C18_Witness ==
    /\ objs[1].monitoring /\ env.starts = 1
    /\ env.ticks = 3
    /\ env.writable /\ env.faults = 1
    /\ objs[1].log_buffer = <<>>
    /\ Cardinality(WrittenRecords(network_log)) = 3

----------------------------------------------------------------------------
(* Specification SpecDay: the operations of SpecOps on a monitor created    *)
(* with or without a Wi-Fi SSID, while the calendar date advances.           *)

InitDay ==
    /\ InitCommon
    /\ \E cfg \in OpsConfigs, wifi_ssid \in {"", "Home WiFi"} :
          objs = <<[Configure(NetworkMonitor(<<"default">>, wifi_ssid, EmptyFiles, 0), cfg)
                       EXCEPT !.log_buffer_max = cfg.log_buffer_max]>>
    /\ callbacks = <<<<>>>>
    /\ env = InitEnv

\* midnight: datetime.now() gives the next calendar date from here on
DayMidnight ==
    /\ OpsDone < MaxOps
    /\ today' = today + 1
    /\ env' = [env EXCEPT !.days = @ + 1]
    /\ UNCHANGED <<objs, monitors, monitor_threads, threads, caller, callbacks, network_log,
                   anomaly_files, now, last_close, stream>>

NextDay ==
    \/ NextOps
    \/ DayMidnight

SpecDay == InitDay /\ [][NextDay]_vars

\* C17: whenever a step writes an episode, the file that receives the row is one
\* whose name carries the current calendar date, and it is the anomaly_file of
\* the instance afterwards, whether the monitor was created with an SSID or not
C17_WrittenUnderCurrentDate ==
    [][\A f \in DOMAIN anomaly_files' :
          (f \notin DOMAIN anomaly_files \/ anomaly_files'[f] # anomaly_files[f]) =>
              /\ f.d = today
              /\ objs'[1].anomaly_file = f]_vars

----------------------------------------------------------------------------
(* Specification SpecAlert: the operations of SpecOps on a monitor whose     *)
(* alert_threshold and enable_alerts were set by the caller (the settings    *)
(* window, lines 2007 and 2014) apart from the threshold of the detector.    *)

AlertSettings ==
    [alert_threshold : {50, 100, 250}, enable_alerts : BOOLEAN]

InitAlert ==
    /\ InitCommon
    /\ \E cfg \in OpsConfigs, a \in AlertSettings :
          objs = <<[Configure(NetworkMonitor(<<"default">>, "Home WiFi", EmptyFiles, 0), cfg)
                       EXCEPT !.log_buffer_max = cfg.log_buffer_max,
                              !.alert_threshold = a.alert_threshold,
                              !.enable_alerts = a.enable_alerts]>>
    /\ callbacks = <<<<>>>>
    /\ env = InitEnv

SpecAlert == InitAlert /\ [][NextOps]_vars

C22_RecordsInFileOfTheirDate ==
    \A f \in DOMAIN network_log :
        \A k \in 2..Len(network_log[f]) : network_log[f][k].timestamp.d = f

----------------------------------------------------------------------------
(* Specification SpecFlush: two instances probing at the same time, each in  *)
(* its own thread, with log_buffer_max = 1; flush_log_buffer is taken by     *)
(* its statements: the test of os.path.exists (line 436), then the write     *)
(* (lines 437-451).                                                          *)

MaxFlushPings == 3

FlushMonitors == 1..2

InitFlush ==
    /\ monitors = [k \in {} |-> 0]
    /\ monitor_threads = [k \in {} |-> 0]
    /\ caller = InitCaller
    /\ network_log = EmptyFiles
    /\ anomaly_files = EmptyFiles
    /\ today = 0
    /\ now = 0
    /\ last_close = NoClose
    /\ stream = NoStream
    /\ objs = [m \in FlushMonitors |->
                 [NetworkMonitor(<<"wifi", "Home WiFi", m>>, "Home WiFi", EmptyFiles, 0)
                     EXCEPT !.log_buffer_max = 1]]
    /\ threads = <<>>
    /\ callbacks = [m \in FlushMonitors |-> <<>>]
    /\ env = InitEnv

\* start_monitoring of instance m; its thread enters monitor_loop
FlushStart(m) ==
    /\ ~objs[m].monitoring
    /\ LoopsOf(m) = {}
    /\ objs' = [objs EXCEPT ![m] = start_monitoring(@, today, "")]
    /\ threads' = Append(threads, [LoopThread(m) EXCEPT !.pc = "while"])
    /\ UNCHANGED <<monitors, monitor_threads, caller, callbacks, network_log, anomaly_files,
                   today, now, env, last_close, stream>>

\* one iteration of thread i up to the record joining the buffer (line 417);
\* with the buffer full the thread enters flush_log_buffer
FlushTick(i, latency) ==
    /\ threads[i].pc = "while"
    /\ objs[threads[i].mon].monitoring
    /\ env.ticks < MaxFlushPings
    /\ LET m == threads[i].mon
           timestamp == [d |-> today, t |-> now + 1]
           p == loop_probe(objs[m], threads[i].loc, latency, timestamp, anomaly_files, today)
           s == log_append(update_packet_loss(p.self), timestamp, latency)
       IN  /\ objs' = [objs EXCEPT ![m] = s]
           /\ callbacks' = [callbacks EXCEPT ![m] = Append(@, p.loc.data)]
           /\ anomaly_files' = p.fs
           /\ threads' = [threads EXCEPT
                             ![i].loc = p.loc,
                             ![i].pc = IF Len(s.log_buffer) >= s.log_buffer_max
                                       THEN "flush" ELSE "while"]
    /\ now' = now + 1
    /\ env' = [env EXCEPT !.ticks = @ + 1, !.last = latency]
    /\ UNCHANGED <<monitors, monitor_threads, caller, network_log, today, last_close,
                   stream>>

\* lines 428-436: file_exists = os.path.exists(log_filename)
FlushCheck(i) ==
    /\ threads[i].pc = "flush"
    /\ threads' = [threads EXCEPT
                      ![i].loc.file_exists =
                          Exists(network_log, flush_file(objs[threads[i].mon])),
                      ![i].pc = "write"]
    /\ UNCHANGED <<objs, monitors, monitor_threads, caller, callbacks, network_log,
                   anomaly_files, today, now, env, last_close, stream>>

\* lines 437-451: the write, and back to the loop
FlushWrite(i) ==
    /\ threads[i].pc = "write"
    /\ LET m == threads[i].mon
           r == flush_write(objs[m], network_log, threads[i].loc.file_exists)
       IN  /\ objs' = [objs EXCEPT ![m] = r.self]
           /\ network_log' = r.log
    /\ threads' = [threads EXCEPT ![i].pc = "while"]
    /\ UNCHANGED <<monitors, monitor_threads, caller, callbacks, anomaly_files, today, now,
                   env, last_close, stream>>

NextFlush ==
    \/ \E m \in FlushMonitors : FlushStart(m)
    \/ \E i \in DOMAIN threads, latency \in ProbeResults : FlushTick(i, latency)
    \/ \E i \in DOMAIN threads : FlushCheck(i)
    \/ \E i \in DOMAIN threads : FlushWrite(i)

SpecFlush == InitFlush /\ [][NextFlush]_vars

\* the header rows of a file
HeaderRows(rows) == {k \in DOMAIN rows : rows[k] = LogHeader}

\* C23: every file of the probe log holds the header row exactly once, as its
\* first row, with any number of instances flushing to it
C23_OneHeaderPerFile ==
    \A f \in DOMAIN network_log : HeaderRows(network_log[f]) = {1}

----------------------------------------------------------------------------
(* Specification SpecCfg: the configuration file. The caller changes the     *)
(* settings of the monitor and saves them (save_settings), changes the       *)
(* interval (the start button), the file loses a key (a document written by  *)
(* an earlier version), and a new NetworkMonitor is constructed, which loads *)
(* the file.                                                                 *)

ConfigKeys ==
    {"interval", "alert_threshold", "packet_loss_threshold", "enable_alerts",
     "enable_sound_alerts"}

\* the defaults of config.get, lines 126-130
ConfigDefaults ==
    [interval |-> DefaultInterval, alert_threshold |-> DefaultAlertThreshold,
     packet_loss_threshold |-> DefaultPacketLossThreshold, enable_alerts |-> TRUE,
     enable_sound_alerts |-> TRUE]

\* save_config, lines 250-262: the document that json.dump writes
save_config(self) ==
    [exists |-> TRUE, doc |-> [k \in ConfigKeys |-> self[k]]]

\* config.get(key, default)
ConfigGet(config, key) ==
    IF key \in DOMAIN config.doc THEN config.doc[key] ELSE ConfigDefaults[key]

\* load_config, lines 121-132
load_config(self, config) ==
    IF ~config.exists
    THEN self
    ELSE [self EXCEPT !.interval = ConfigGet(config, "interval"),
                      !.alert_threshold = ConfigGet(config, "alert_threshold"),
                      !.packet_loss_threshold = ConfigGet(config, "packet_loss_threshold"),
                      !.enable_alerts = ConfigGet(config, "enable_alerts"),
                      !.enable_sound_alerts = ConfigGet(config, "enable_sound_alerts")]

\* what the settings window can hold when save_settings reads it
SettingsValues ==
    [alert_threshold : {100, 150},
     packet_loss_threshold : {5},
     anomaly_min_consecutive_normal : {10, 5},
     anomaly_deviation_multiplier : {DefaultDeviationMultiplier, [s |-> 3, n |-> 1]},
     anomaly_min_pings : {5, 3},
     anomaly_min_increase_percent : {50},
     enable_sound_alerts : BOOLEAN,
     enable_alerts : {TRUE}]

\* the configuration surface of an instance
ConfigSurface(o) ==
    [interval |-> o.interval,
     alert_threshold |-> o.alert_threshold,
     packet_loss_threshold |-> o.packet_loss_threshold,
     anomaly_deviation_multiplier |-> o.anomaly_deviation_multiplier,
     anomaly_min_samples |-> o.anomaly_min_samples,
     anomaly_min_consecutive_normal |-> o.anomaly_min_consecutive_normal,
     anomaly_min_pings |-> o.anomaly_min_pings,
     anomaly_min_increase_percent |-> o.anomaly_min_increase_percent,
     enable_sound_alerts |-> o.enable_sound_alerts,
     enable_alerts |-> o.enable_alerts]

InitCfg ==
    /\ InitCommon
    /\ objs = <<NetworkMonitor(<<"default">>, "", EmptyFiles, 0)>>
    /\ callbacks = <<<<>>>>
    /\ env = InitEnv

CfgUnchanged ==
    <<monitors, monitor_threads, threads, caller, callbacks, network_log, anomaly_files,
      today, now, last_close, stream>>

\* save_settings, lines 2005-2016: the eight attributes, then save_config
CfgSaveSettings(st) ==
    /\ LET o == [objs[1] EXCEPT
                    !.alert_threshold = st.alert_threshold,
                    !.packet_loss_threshold = st.packet_loss_threshold,
                    !.anomaly_min_consecutive_normal = st.anomaly_min_consecutive_normal,
                    !.anomaly_deviation_multiplier = st.anomaly_deviation_multiplier,
                    !.anomaly_min_pings = st.anomaly_min_pings,
                    !.anomaly_min_increase_percent = st.anomaly_min_increase_percent,
                    !.enable_sound_alerts = st.enable_sound_alerts,
                    !.enable_alerts = st.enable_alerts]
       IN  /\ objs' = [objs EXCEPT ![1] = o]
           /\ env' = [env EXCEPT !.config = save_config(o), !.config_saved = TRUE]
    /\ UNCHANGED CfgUnchanged

\* line 1493: the interval of the start button, not saved
CfgSetInterval(interval) ==
    /\ objs[1].interval # interval
    /\ objs' = [objs EXCEPT ![1].interval = interval]
    /\ env' = [env EXCEPT !.config_saved = FALSE]
    /\ UNCHANGED CfgUnchanged

\* the file is one that lacks a key
CfgDropKey(key) ==
    /\ env.config.exists
    /\ key \in DOMAIN env.config.doc
    /\ env' = [env EXCEPT
                  !.config.doc = [k \in DOMAIN env.config.doc \ {key} |-> env.config.doc[k]],
                  !.config_saved = FALSE]
    /\ UNCHANGED <<objs, CfgUnchanged>>

\* NetworkMonitor(): __init__ sets the defaults and calls load_config (line 118)
CfgNew ==
    /\ objs' = <<objs[1],
                 load_config(NetworkMonitor(<<"default">>, "", anomaly_files, today),
                             env.config)>>
    /\ UNCHANGED <<env, CfgUnchanged>>

NextCfg ==
    \/ \E st \in SettingsValues : CfgSaveSettings(st)
    \/ \E interval \in {1, 2} : CfgSetInterval(interval)
    \/ \E key \in ConfigKeys : CfgDropKey(key)
    \/ CfgNew

SpecCfg == InitCfg /\ [][NextCfg]_vars

\* C24: a NetworkMonitor constructed when save_config was the last thing done to
\* the settings and to the file has the configuration surface of the saving
\* monitor
C24_RoundTrip ==
    [][(CfgNew /\ env.config_saved) => ConfigSurface(objs'[2]) = ConfigSurface(objs[1])]_vars

----------------------------------------------------------------------------
(* Further claims about the detector, checked under SpecDet and SpecOps      *)

\* C25: baseline_latencies holds no sample that the detector classified as
\* anomalous; a latency at or above the fixed threshold is always classified so
C25_BaselineHoldsNoAnomalous ==
    \A k \in DOMAIN Det.baseline_latencies :
        Det.baseline_latencies[k] < Det.anomaly_threshold

\* the sample of a step is above the dynamic threshold of lines 510-514: the
\* baseline, as the detector left it, holds anomaly_min_samples values and the
\* latency exceeds cached mean + multiplier * cached stdev
AboveBaseline(latency) ==
    /\ Len(objs'[1].baseline_latencies) >= objs[1].anomaly_min_samples
    /\ AboveDynamicThreshold(latency, objs'[1].cached_baseline_mean,
                             objs'[1].cached_baseline_stdev,
                             objs[1].anomaly_deviation_multiplier)

\* the criterion that fires on a sample, the fixed threshold first
FiringCriterion(latency) ==
    IF latency >= objs[1].anomaly_threshold THEN "threshold fixo"
    ELSE "desvio estatistico"

\* C26: a successful sample is found anomalous exactly when its latency reaches
\* anomaly_threshold, or the baseline holds anomaly_min_samples values and the
\* latency exceeds the (cached) baseline mean plus multiplier times the (cached)
\* baseline stdev; the sample that opens an episode records the criterion that
\* fired, the fixed threshold taking precedence; the record is kept while the
\* episode is open and is the detection_method of the stored episode
C26_Classification ==
    [][\A latency \in Latencies :
          DetTick(latency) =>
              /\ FoundAnomalous <=>
                     (latency >= objs[1].anomaly_threshold \/ AboveBaseline(latency))
              /\ IF OpenEvent(objs[1], objs'[1])
                 THEN objs'[1].anomaly_reason = FiringCriterion(latency)
                 ELSE objs'[1].anomaly_reason = objs[1].anomaly_reason
              /\ AppendEvent(objs[1], objs'[1]) =>
                     objs'[1].detected_anomalies[Len(objs'[1].detected_anomalies)]
                         .detection_method = objs[1].anomaly_reason]_vars

\* an episode opened by the statistical criterion, extended by a sample at or
\* above the fixed threshold, is stored with the statistical method
C26_Witness ==
    /\ Det.detected_anomalies # <<>>
    /\ LastEpisode.detection_method = "desvio estatistico"
    /\ LastEpisode.max_latency >= Det.anomaly_threshold
    /\ LastEpisode.min_latency < Det.anomaly_threshold

----------------------------------------------------------------------------
(* Specification SpecSet: the operations of SpecOps, and the settings window *)
(* saved while the instance monitors. The window holds the values of the     *)
(* instance except the number of normal samples that close an episode,       *)
(* which the user may have edited.                                           *)

ConfirmationSizes == {1, 2}

InitSet ==
    /\ InitCommon
    /\ \E cfg \in OpsConfigs, n \in ConfirmationSizes :
          objs = <<[Configure(NetworkMonitor(<<"default">>, "Home WiFi", EmptyFiles, 0), cfg)
                       EXCEPT !.log_buffer_max = cfg.log_buffer_max,
                              !.anomaly_min_consecutive_normal = n]>>
    /\ callbacks = <<<<>>>>
    /\ env = InitEnv

\* save_settings, lines 2005-2016, with a new value in anomaly_buffer_spin
SetSaveSettings(n) ==
    /\ OpsDone < MaxOps
    /\ n # objs[1].anomaly_min_consecutive_normal
    /\ LET o == [objs[1] EXCEPT !.anomaly_min_consecutive_normal = n]
       IN  /\ objs' = [objs EXCEPT ![1] = o]
           /\ env' = [env EXCEPT !.config = save_config(o), !.config_saved = TRUE,
                                 !.settings = @ + 1]
    /\ UNCHANGED <<monitors, monitor_threads, threads, caller, callbacks, network_log,
                   anomaly_files, today, now, last_close, stream>>

NextSet ==
    \/ NextOps
    \/ \E n \in ConfirmationSizes : SetSaveSettings(n)

SpecSet == InitSet /\ [][NextSet]_vars

\* an iteration of the loop in which the probe succeeded and the detector ran
\* to its end
ClassifyingTick(latency) ==
    /\ \E i \in DOMAIN threads, callback_raises \in BOOLEAN :
          OpsTick(i, latency, callback_raises)
    /\ env'.fault # "detector"

\* an iteration that closes the open episode
ClosingTick(latency) ==
    ClassifyingTick(latency) /\ CloseEvent(objs[1], objs'[1])

C28_FoldingOfBufferedNormals ==
    [][\A latency \in Latencies :
          DetTick(latency) =>
              /\ (objs[1].in_anomaly /\ ClassifiedAnomalous(objs[1], objs'[1], latency)) =>
                     /\ objs'[1].anomaly_window =
                            Append(objs[1].anomaly_window, latency)
                                \o objs[1].anomaly_normal_buffer
                     /\ objs'[1].anomaly_normal_buffer = <<>>
              /\ CloseEvent(objs[1], objs'[1]) =>
                     /\ Len(objs[1].anomaly_window) = env.episode.anom + env.episode.folded
                     /\ Len(objs[1].anomaly_normal_buffer) = env.episode.pending
              /\ AppendEvent(objs[1], objs'[1]) =>
                     objs'[1].detected_anomalies[Len(objs'[1].detected_anomalies)]
                         .pings_affected = env.episode.anom + env.episode.folded]_vars

\* a stored episode of three samples one of which was a normal sample folded
\* into the window by the anomalous sample after it
C28_Witness ==
    /\ Det.detected_anomalies # <<>>
    /\ Det.anomaly_min_consecutive_normal = 2
    /\ LastEpisode.pings_affected = 3
    /\ LastEpisode.min_latency < Det.anomaly_threshold
    /\ LastEpisode.detection_method = "threshold fixo"
    /\ last_close.window = <<200, 200, 90>>

\* the state of the anomaly detector of an instance, the baseline and its
\* cache included
DetectorAndBaseline(o) ==
    [in_anomaly |-> o.in_anomaly,
     anomaly_window |-> o.anomaly_window,
     anomaly_normal_buffer |-> o.anomaly_normal_buffer,
     baseline_latencies |-> o.baseline_latencies,
     cached_baseline_mean |-> o.cached_baseline_mean,
     cached_baseline_stdev |-> o.cached_baseline_stdev,
     baseline_cache_count |-> o.baseline_cache_count,
     anomaly_reason |-> o.anomaly_reason,
     detected_anomalies |-> o.detected_anomalies]

\* an iteration of the loop whose probe failed
FailedTick ==
    \E i \in DOMAIN threads, callback_raises \in BOOLEAN : OpsTick(i, None, callback_raises)

\* C29: an iteration whose probe failed leaves in_anomaly, anomaly_window,
\* anomaly_normal_buffer, baseline_latencies and the cached mean, stdev and
\* refresh counter as they were (and with them the episode's reason and the
\* list of stored episodes and the episode files), with or without an episode open
C29_FailedProbeLeavesDetector ==
    [][FailedTick =>
          /\ DetectorAndBaseline(objs'[1]) = DetectorAndBaseline(objs[1])
          /\ anomaly_files' = anomaly_files]_vars

\* a probe has just failed while an episode was open with a normal sample in
\* the confirmation buffer, after a failed probe had been seen outside an episode
C29_Witness ==
    /\ env.last = None
    /\ env.ticks >= 3
    /\ objs[1].in_anomaly
    /\ objs[1].anomaly_normal_buffer # <<>>
    /\ objs[1].stats.failed_pings >= 2
    /\ objs[1].baseline_latencies # <<>>

----------------------------------------------------------------------------
(* Specification SpecRace: the operations of SpecOps on one instance, where   *)
(* start_monitoring may come while a loop stopped earlier is still running    *)
(* (it then finds monitoring True again and goes on: two loops probe for the  *)
(* instance), and where a loop that closes an episode may be overtaken        *)
(* between line 549 and line 615 by the other loop.                           *)

InitRace ==
    /\ InitCommon
    /\ \E cfg \in OpsConfigs :
          objs = <<[Configure(NetworkMonitor(<<"default">>, "Home WiFi", EmptyFiles, 0), cfg)
                       EXCEPT !.log_buffer_max = cfg.log_buffer_max]>>
    /\ callbacks = <<<<>>>>
    /\ env = InitEnv

\* start_monitoring (lines 455-469) while an earlier loop has not yet ended
RaceStart ==
    /\ ~objs[1].monitoring
    /\ ActiveLoopsOf(1) # {}
    /\ OpsDone < MaxOps
    /\ objs' = [objs EXCEPT ![1] = [start_monitoring(@, today, "")
                                        EXCEPT !.stats.start_time = Timestamp]]
    /\ threads' = Append(threads, [LoopThread(1) EXCEPT !.pc = "while"])
    /\ env' = [env EXCEPT !.starts = @ + 1, !.loop_run = 0, !.overlap = TRUE]
    /\ UNCHANGED <<monitors, monitor_threads, caller, callbacks, network_log,
                   anomaly_files, today, now, last_close, stream>>

\* lines 301-335 and 541-612 by thread i: its sample closes the episode;
\* in_anomaly is False, the episode is stored or discarded, and lines 615-616
\* have not run yet
RaceCloseBegin(i, latency) ==
    /\ threads[i].pc = "while"
    /\ objs[1].monitoring
    /\ OpsDone < MaxOps
    /\ ~loop_probe_raises(objs[1], threads[i].loc, latency)
    /\ LET o == objs[1]
           p == loop_probe(o, threads[i].loc, latency, [d |-> today, t |-> now + 1],
                           anomaly_files, today)
       IN  /\ CloseEvent(o, p.self)
           /\ objs' = [objs EXCEPT ![1] =
                          [p.self EXCEPT
                              !.anomaly_window = o.anomaly_window,
                              !.anomaly_normal_buffer = Append(o.anomaly_normal_buffer, latency),
                              !.stats.alerts_triggered = o.stats.alerts_triggered]]
           /\ threads' = [threads EXCEPT ![i].loc = p.loc, ![i].pc = "closing"]
           /\ anomaly_files' = p.fs
           /\ last_close' = ObserveClose(o, p.self, anomaly_files, p.fs)
           /\ stream' = ObserveStream(o, p.self, latency)
           /\ env' = [env EXCEPT !.ticks = @ + 1, !.last = latency, !.fault = "none",
                                 !.fail_run = 0, !.loop_run = 0,
                                 !.episode = EpisodeHistory(o, p.self, latency, @),
                                 !.cache = CacheHistory(o, p.self, @)]
    /\ now' = now + 1
    /\ UNCHANGED <<monitors, monitor_threads, caller, callbacks, network_log, today>>

\* lines 615-616 and 337-383 by thread i: the window and the buffer are
\* cleared, whatever they hold by now; then the alert, the callback and the
\* log record of the sample
RaceCloseEnd(i, callback_raises) ==
    /\ threads[i].pc = "closing"
    /\ LET loc == threads[i].loc
           cleared == [objs[1] EXCEPT
                          !.anomaly_window = <<>>,
                          !.anomaly_normal_buffer = <<>>,
                          !.stats.alerts_triggered =
                              IF loc.data.alert = "latency" THEN @ + 1 ELSE @]
           d == IF callback_raises THEN [self |-> cleared, log |-> network_log]
                ELSE loop_deliver(cleared, loc, network_log)
       IN  /\ objs' = [objs EXCEPT ![1] = d.self]
           /\ network_log' = d.log
           /\ callbacks' = [callbacks EXCEPT ![1] = Append(@, loc.data)]
           /\ threads' = [threads EXCEPT ![i].pc = on_exception("while")]
           /\ env' = [env EXCEPT !.fault = IF callback_raises THEN "callback" ELSE @]
    /\ UNCHANGED <<monitors, monitor_threads, caller, anomaly_files, today, now,
                   last_close, stream>>

NextRace ==
    \/ NextOps
    \/ RaceStart
    \/ \E i \in DOMAIN threads, latency \in OpsResults \ {None} : RaceCloseBegin(i, latency)
    \/ \E i \in DOMAIN threads, callback_raises \in BOOLEAN : RaceCloseEnd(i, callback_raises)

SpecRace == InitRace /\ [][NextRace]_vars

C31_BaselineOfEarlierSamples ==
    [][\A latency \in Latencies :
          (DetTick(latency) /\ AppendEvent(objs[1], objs'[1])) =>
              LET e == objs'[1].detected_anomalies[Len(objs'[1].detected_anomalies)]
                  before == env.episode.before
                  defined == Len(before) >= BaselineMinForStats
                  list == LastN(before, BaselineWindow)
              IN  /\ e.baseline_avg = IF defined THEN Mean(list) ELSE Zero
                  /\ e.baseline_min = IF defined THEN Min(list) ELSE 0
                  /\ e.baseline_max = IF defined THEN Max(list) ELSE 0]_vars

----------------------------------------------------------------------------
(* Specification SpecCache: the operations of SpecOps on one instance whose   *)
(* first session may begin with up to WarmSamples samples of 90 ms that are   *)
(* not drawn from the budget of operations, so that the tenth sample after a  *)
(* refresh of the cache is within reach.                                      *)

WarmSamples == 9

InitCache ==
    /\ InitCommon
    /\ \E cfg \in OpsConfigs :
          objs = <<[Configure(NetworkMonitor(<<"default">>, "Home WiFi", EmptyFiles, 0), cfg)
                       EXCEPT !.log_buffer_max = cfg.log_buffer_max]>>
    /\ callbacks = <<<<>>>>
    /\ env = InitEnv

\* one whole iteration of monitor_loop by thread i at the beginning of the first
\* session: the probe returns 90 ms, the detector and the callback return
CacheWarm(i) ==
    /\ threads[i].pc = "while"
    /\ objs[1].monitoring
    /\ OpsDone = 1
    /\ env.warm < WarmSamples
    /\ env.warm = objs[1].stats.total_pings
    /\ ~loop_probe_raises(objs[1], threads[i].loc, 90)
    /\ LET o == objs[1]
           p == loop_probe(o, threads[i].loc, 90, [d |-> today, t |-> now + 1],
                           anomaly_files, today)
           d == loop_deliver(p.self, p.loc, network_log)
       IN  /\ objs' = [objs EXCEPT ![1] = d.self]
           /\ threads' = [threads EXCEPT ![i].loc = p.loc]
           /\ callbacks' = [callbacks EXCEPT ![1] = Append(@, p.loc.data)]
           /\ anomaly_files' = p.fs
           /\ network_log' = d.log
           /\ last_close' = ObserveClose(o, p.self, anomaly_files, p.fs)
           /\ stream' = ObserveStream(o, p.self, 90)
           /\ env' = [env EXCEPT !.warm = @ + 1, !.last = 90, !.fault = "none",
                                 !.fail_run = 0, !.loop_run = 0,
                                 !.episode = EpisodeHistory(o, p.self, 90, @),
                                 !.cache = CacheHistory(o, p.self, @)]
    /\ now' = now + 1
    /\ UNCHANGED <<monitors, monitor_threads, caller, today>>

NextCache ==
    \/ NextOps
    \/ \E i \in DOMAIN threads : CacheWarm(i)

SpecCache == InitCache /\ [][NextCache]_vars

\* the step is an iteration of the loop (OpsTick or CacheWarm) whose probe
\* returned latency
SampleTaken(latency) ==
    /\ env'.ticks > env.ticks \/ env'.warm > env.warm
    /\ env'.last = latency

\* an iteration with a successful sample in which lines 510-511 read the cached
\* pair: the statistical branch was entered and line 507 did not raise
CacheRead(latency) ==
    /\ SampleTaken(latency)
    /\ StatBranch(objs'[1], latency)
    /\ ~ /\ Len(objs'[1].baseline_latencies) < 2
         /\ objs'[1].baseline_cache_count >= CacheRefresh
                \/ objs[1].cached_baseline_mean.n = 0

\* the cached pair is the mean and the stdev of the baseline as it stood fewer
\* than 10 insertions before
CacheFresh ==
    /\ objs'[1].baseline_cache_count < CacheRefresh
    /\ env'.cache.since = objs'[1].baseline_cache_count
    /\ Len(env'.cache.src) >= objs[1].anomaly_min_samples
    /\ objs'[1].cached_baseline_mean = Mean(env'.cache.src)
    /\ objs'[1].cached_baseline_stdev = Variance(env'.cache.src)
    /\ objs'[1].cached_baseline_stdev.n # 0

----------------------------------------------------------------------------
(* Further claims about the loop, checked under SpecOps                      *)

\* the records of the probe log, buffered or written
LoggedRecords ==
    {objs'[1].log_buffer[k] : k \in DOMAIN objs'[1].log_buffer}
        \cup WrittenRecords(network_log')

\* C33: every iteration that counts a sample in total_pings leaves, in
\* log_buffer or in the log file, a record with the timestamp, the latency (or
\* N/A) and the status of that sample, whether the detector or the callback
\* raise or return
C33_EverySampleLogged ==
    [][objs'[1].stats.total_pings = objs[1].stats.total_pings + 1 =>
          \E r \in LoggedRecords :
              /\ r.timestamp = [d |-> today, t |-> now']
              /\ r.status = IF env'.last = None THEN "Failed" ELSE "Success"
              /\ r.latency_str = IF env'.last = None THEN None ELSE env'.last * 100]_vars

\* the instance as the callback of thread i finds it when it is invoked with
\* the sample of this iteration (lines 353 and 376)
AtCallback(i, latency) ==
    loop_probe(objs[1], threads[i].loc, latency, [d |-> today, t |-> now + 1],
               anomaly_files, today).self

\* C34: when the callback is invoked for a sample, the statistics of the
\* instance cover that sample and all earlier ones: total_pings is the number of
\* samples taken (no reset_stats having intervened), successful_pings +
\* failed_pings equals it, and packet_loss is failed_pings / total_pings * 100
C34_StatsAtCallback ==
    [][\A i \in DOMAIN threads, latency \in OpsResults, callback_raises \in BOOLEAN :
          (OpsTick(i, latency, callback_raises) /\ env'.fault # "detector") =>
              LET stats == AtCallback(i, latency).stats
              IN  /\ env.resets = 0 => stats.total_pings = env.ticks + 1
                  /\ stats.successful_pings + stats.failed_pings = stats.total_pings
                  /\ stats.packet_loss.s * stats.total_pings =
                         stats.failed_pings * 100 * stats.packet_loss.n]_vars

----------------------------------------------------------------------------
(* Specification SpecPar: a manager called from two threads at once.  The   *)
(* statements of start_monitor, stop_monitor, stop_all and remove_monitor   *)
(* of the two callers interleave; add_monitor and remove_monitor take       *)
(* self.lock (lines 771, 821), start_monitor, stop_monitor and stop_all do  *)
(* not.  caller is here one record per calling thread.                      *)

Callers == 2

MaxCalls == 4

ParSsids == {"Home WiFi"}

ParCaller == [pc |-> "idle", op |-> "none", todo |-> <<>>, holds |-> FALSE,
              error |-> "none", returned |-> "none"]

\* threading.Thread(target=self._monitor_thread_worker, args=(wifi_ssid, callback))
ParWorkerThread(key) == [kind |-> "worker", key |-> key, pc |-> "new", error |-> "none"]

InitPar ==
    /\ monitors = [k \in {} |-> 0]
    /\ monitor_threads = [k \in {} |-> 0]
    /\ threads = <<>>
    /\ caller = [c \in 1..Callers |-> ParCaller]
    /\ network_log = EmptyFiles
    /\ anomaly_files = EmptyFiles
    /\ today = 0
    /\ now = 0
    /\ last_close = NoClose
    /\ stream = NoStream
    /\ objs = <<NetworkMonitor(<<"default">>, "", EmptyFiles, 0)>>
    /\ callbacks = <<<<>>>>
    /\ env = InitEnv

ParUnchanged == <<callbacks, anomaly_files, today, now, last_close, stream>>

\* self.lock is free
LockFree == \A c \in 1..Callers : ~caller[c].holds

\* the keys a call may name: those of the two dicts and the plain SSID
CallKeys == DOMAIN monitors \cup DOMAIN monitor_threads \cup {Key(s) : s \in ParSsids}

Called == env' = [env EXCEPT !.starts = @ + 1]

\* the operation of caller c returns
Returns(c, op) == [caller EXCEPT ![c].pc = "idle", ![c].returned = op, ![c].todo = <<>>,
                                 ![c].holds = FALSE]

\* the operation of caller c ends with an exception; a `with self.lock` block
\* it is in releases the lock
Raises(c, exception) == [caller EXCEPT ![c].pc = "idle", ![c].error = exception,
                                       ![c].todo = <<>>, ![c].holds = FALSE]

\* stop_monitor has finished with the key at the head of todo: the next key of
\* stop_all, line 824 of remove_monitor, or the return
ParKeyDone(c) ==
    LET rest == Tail(caller[c].todo) IN
    IF caller[c].op = "remove_monitor" THEN [caller EXCEPT ![c].pc = "remove_del"]
    ELSE IF rest = <<>> THEN Returns(c, caller[c].op)
    ELSE [caller EXCEPT ![c].pc = "stop", ![c].todo = rest]

\* add_monitor, lines 769-818, the whole body under self.lock
ParAdd(c, wifi_ssid, force_new) ==
    /\ caller[c].pc = "idle" /\ env.starts < MaxCalls /\ LockFree
    /\ Called
    /\ LET r == add_monitor(objs, monitors, wifi_ssid, TRUE, objs[1], force_new,
                            anomaly_files, today)
       IN  /\ objs' = r.os
           /\ monitors' = r.mons
    /\ caller' = Returns(c, "add_monitor")
    /\ UNCHANGED <<monitor_threads, threads, network_log, ParUnchanged>>

\* remove_monitor, lines 821-822: the lock is taken and the key looked up
ParRemove(c, key) ==
    /\ caller[c].pc = "idle" /\ env.starts < MaxCalls /\ LockFree
    /\ Called
    /\ caller' = IF key \in DOMAIN monitors
                 THEN [caller EXCEPT ![c].pc = "stop", ![c].op = "remove_monitor",
                                     ![c].todo = <<key>>, ![c].holds = TRUE]
                 ELSE Returns(c, "remove_monitor")
    /\ UNCHANGED <<objs, monitors, monitor_threads, threads, network_log, ParUnchanged>>

\* remove_monitor, line 824: del self.monitors[wifi_ssid], and the lock is released
ParRemoveDel(c) ==
    /\ caller[c].pc = "remove_del"
    /\ LET key == Head(caller[c].todo) IN
       IF key \in DOMAIN monitors
       THEN /\ monitors' = DelKey(monitors, key)
            /\ caller' = Returns(c, "remove_monitor")
       ELSE /\ caller' = Raises(c, "KeyError")
            /\ UNCHANGED monitors
    /\ UNCHANGED <<objs, monitor_threads, threads, network_log, env, ParUnchanged>>

\* the call of start_monitor, line 830: if wifi_ssid not in self.monitors
ParStart(c, key) ==
    /\ caller[c].pc = "idle" /\ env.starts < MaxCalls
    /\ Called
    /\ caller' = IF key \in DOMAIN monitors
                 THEN [caller EXCEPT ![c].pc = "start_get", ![c].op = "start_monitor",
                                     ![c].todo = <<key>>]
                 ELSE Returns(c, "start_monitor False")
    /\ UNCHANGED <<objs, monitors, monitor_threads, threads, network_log, ParUnchanged>>

\* start_monitor, lines 834-849: monitor = self.monitors[wifi_ssid], the test of
\* monitor.monitoring, the thread is created and stored in monitor_threads
ParStartStore(c) ==
    /\ caller[c].pc = "start_get"
    /\ LET key == Head(caller[c].todo) IN
       IF key \notin DOMAIN monitors
       THEN /\ caller' = Raises(c, "KeyError")
            /\ UNCHANGED <<threads, monitor_threads>>
       ELSE IF objs[monitors[key]].monitoring
       THEN /\ caller' = Returns(c, "start_monitor False")
            /\ UNCHANGED <<threads, monitor_threads>>
       ELSE /\ threads' = Append(threads, ParWorkerThread(key))
            /\ monitor_threads' = SetKey(monitor_threads, key, Len(threads) + 1)
            /\ caller' = [caller EXCEPT ![c].pc = "start_run",
                                        ![c].todo = <<Len(threads) + 1>>]
    /\ UNCHANGED <<objs, monitors, network_log, env, ParUnchanged>>

\* start_monitor, lines 850-853: thread.start(), return True
ParStartRun(c) ==
    /\ caller[c].pc = "start_run"
    /\ threads' = [threads EXCEPT ![Head(caller[c].todo)].pc = "start"]
    /\ caller' = Returns(c, "start_monitor True")
    /\ UNCHANGED <<objs, monitors, monitor_threads, network_log, env, ParUnchanged>>

\* the call of stop_monitor(key)
ParStop(c, key) ==
    /\ caller[c].pc = "idle" /\ env.starts < MaxCalls
    /\ Called
    /\ caller' = [caller EXCEPT ![c].pc = "stop", ![c].op = "stop_monitor",
                                ![c].todo = <<key>>]
    /\ UNCHANGED <<objs, monitors, monitor_threads, threads, network_log, ParUnchanged>>

\* the call of stop_all(), line 870: for wifi_ssid in list(self.monitors.keys())
ParStopAll(c) ==
    /\ caller[c].pc = "idle" /\ env.starts < MaxCalls
    /\ Called
    /\ caller' = IF DOMAIN monitors = {}
                 THEN Returns(c, "stop_all")
                 ELSE [caller EXCEPT ![c].pc = "stop", ![c].op = "stop_all",
                                     ![c].todo = KeysInOrder(monitors)]
    /\ UNCHANGED <<objs, monitors, monitor_threads, threads, network_log, ParUnchanged>>

\* stop_monitor, line 856: if wifi_ssid in self.monitors
ParStopTest(c) ==
    /\ caller[c].pc = "stop"
    /\ caller' = IF Head(caller[c].todo) \in DOMAIN monitors
                 THEN [caller EXCEPT ![c].pc = "stop_get"]
                 ELSE ParKeyDone(c)
    /\ UNCHANGED <<objs, monitors, monitor_threads, threads, network_log, env,
                   ParUnchanged>>

\* stop_monitor, lines 857-861: monitor = self.monitors[wifi_ssid],
\* monitor.stop_monitoring(), if wifi_ssid in self.monitor_threads
ParStopSignal(c) ==
    /\ caller[c].pc = "stop_get"
    /\ LET key == Head(caller[c].todo) IN
       IF key \in DOMAIN monitors
       THEN LET m == monitors[key]
                r == stop_monitoring(objs[m], network_log)
            IN  /\ objs' = [objs EXCEPT ![m] = r.self]
                /\ network_log' = r.log
                /\ caller' = IF key \in DOMAIN monitor_threads
                             THEN [caller EXCEPT ![c].pc = "join"]
                             ELSE ParKeyDone(c)
       ELSE /\ caller' = Raises(c, "KeyError")
            /\ UNCHANGED <<objs, network_log>>
    /\ UNCHANGED <<monitors, monitor_threads, threads, env, ParUnchanged>>

\* stop_monitor, lines 862-863: thread = self.monitor_threads[wifi_ssid],
\* thread.join(timeout=2.0); joining a thread that was not started raises
ParStopJoin(c) ==
    /\ caller[c].pc = "join"
    /\ LET key == Head(caller[c].todo) IN
       caller' = IF key \notin DOMAIN monitor_threads THEN Raises(c, "KeyError")
                 ELSE IF threads[monitor_threads[key]].pc = "new"
                 THEN Raises(c, "RuntimeError")
                 ELSE [caller EXCEPT ![c].pc = "del"]
    /\ UNCHANGED <<objs, monitors, monitor_threads, threads, network_log, env,
                   ParUnchanged>>

\* stop_monitor, line 864: del self.monitor_threads[wifi_ssid]
ParStopDel(c) ==
    /\ caller[c].pc = "del"
    /\ LET key == Head(caller[c].todo) IN
       IF key \in DOMAIN monitor_threads
       THEN /\ monitor_threads' = DelKey(monitor_threads, key)
            /\ caller' = ParKeyDone(c)
       ELSE /\ caller' = Raises(c, "KeyError")
            /\ UNCHANGED monitor_threads
    /\ UNCHANGED <<objs, monitors, threads, network_log, env, ParUnchanged>>

\* _monitor_thread_worker, lines 874-879: monitor = self.monitors[wifi_ssid] and
\* monitor.start_monitoring(callback), which starts the loop thread unless the
\* monitor is already monitoring
ParWorker(i) ==
    /\ threads[i].kind = "worker" /\ threads[i].pc = "start"
    /\ LET key == threads[i].key IN
       IF key \notin DOMAIN monitors
       THEN /\ threads' = [threads EXCEPT ![i].pc = "done", ![i].error = "KeyError"]
            /\ UNCHANGED objs
       ELSE LET m == monitors[key] IN
            IF objs[m].monitoring
            THEN /\ threads' = [threads EXCEPT ![i].pc = "done"]
                 /\ UNCHANGED objs
            ELSE /\ objs' = [objs EXCEPT ![m] = start_monitoring(@, today, "")]
                 /\ threads' = Append([threads EXCEPT ![i].pc = "done"], LoopThread(m))
    /\ UNCHANGED <<monitors, monitor_threads, caller, network_log, env, ParUnchanged>>

NextPar ==
    \/ \E c \in 1..Callers, wifi_ssid \in ParSsids, force_new \in BOOLEAN :
           ParAdd(c, wifi_ssid, force_new)
    \/ \E c \in 1..Callers, key \in CallKeys : ParRemove(c, key)
    \/ \E c \in 1..Callers : ParRemoveDel(c)
    \/ \E c \in 1..Callers, key \in CallKeys : ParStart(c, key)
    \/ \E c \in 1..Callers : ParStartStore(c)
    \/ \E c \in 1..Callers : ParStartRun(c)
    \/ \E c \in 1..Callers, key \in CallKeys : ParStop(c, key)
    \/ \E c \in 1..Callers : ParStopAll(c)
    \/ \E c \in 1..Callers : ParStopTest(c)
    \/ \E c \in 1..Callers : ParStopSignal(c)
    \/ \E c \in 1..Callers : ParStopJoin(c)
    \/ \E c \in 1..Callers : ParStopDel(c)
    \/ \E i \in DOMAIN threads : ParWorker(i)

SpecPar == InitPar /\ [][NextPar]_vars

\* C35: under any interleaving of add_monitor, remove_monitor, start_monitor,
\* stop_monitor and stop_all issued from two threads, no operation fails with
\* an error, and once the calls have returned every key of monitor_threads is
\* a key of monitors
C35_Serialized ==
    /\ \A c \in 1..Callers : caller[c].error = "none"
    /\ \A i \in DOMAIN threads : threads[i].kind = "worker" => threads[i].error = "none"
    /\ (\A c \in 1..Callers : caller[c].pc = "idle") =>
           DOMAIN monitor_threads \subseteq DOMAIN monitors

\* C36: add_monitor with force_new=True adds an entry under a key that no
\* tracked monitor uses: the number of tracked monitors grows by one and every
\* monitor tracked before is still tracked under its key
C36_ForceNewAddsEntry ==
    [][\A c \in 1..Callers, wifi_ssid \in ParSsids :
          ParAdd(c, wifi_ssid, TRUE) =>
              /\ Cardinality(DOMAIN monitors') = Cardinality(DOMAIN monitors) + 1
              /\ \A key \in DOMAIN monitors :
                     key \in DOMAIN monitors' /\ monitors'[key] = monitors[key]]_vars

----------------------------------------------------------------------------
(* Specification SpecMid: the operations of SpecOps, and an iteration of    *)
(* the loop taken in two steps, so that reset_stats, called from the        *)
(* thread of the window (lines 1516-1521), can run between line 317 and     *)
(* the lines that count the success or the failure.                         *)

InitMid == InitOps

\* lines 300-317: the probe returns latency and the sample is counted in
\* total_pings
MidCount(i, latency) ==
    /\ threads[i].pc = "while"
    /\ objs[1].monitoring
    /\ OpsDone < MaxOps
    /\ LET c == count_ping(objs[1], threads[i].loc)
       IN  /\ objs' = [objs EXCEPT ![1] = [c.self EXCEPT !.stats.total_pings = @ + 1]]
           /\ threads' = [threads EXCEPT ![i].loc = c.loc, ![i].pc = "counted"]
    /\ env' = [env EXCEPT !.last = latency]
    /\ now' = now + 1
    /\ UNCHANGED <<monitors, monitor_threads, caller, callbacks, network_log,
                   anomaly_files, today, last_close, stream>>

\* lines 319-393: the rest of the iteration for the latency of MidCount: the
\* success or the failure is counted, the detector, the callback, packet loss
\* and the log record
MidRecord(i, callback_raises) ==
    /\ threads[i].pc = "counted"
    /\ LET o == objs[1]
           loc == threads[i].loc
           latency == env.last
       IN  IF latency # None /\ detect_anomaly_raises(record_latency(o, latency), latency)
           THEN /\ objs' = [objs EXCEPT ![1] =
                               detect_anomaly_raised(record_latency(o, latency), latency)]
                /\ threads' = [threads EXCEPT ![i].loc.consecutive_failures = 0,
                                              ![i].pc = "while"]
                /\ env' = [env EXCEPT !.ticks = @ + 1, !.fault = "detector",
                                      !.fail_run = 0, !.loop_run = 0,
                                      !.cache = CacheHistory(o, objs'[1], @)]
                /\ ~callback_raises
                /\ UNCHANGED <<callbacks, anomaly_files, network_log, last_close, stream>>
           ELSE LET p == IF latency # None
                         THEN record_success(o, loc, latency, Timestamp, anomaly_files,
                                             today)
                         ELSE record_failure(o, loc, Timestamp, anomaly_files)
                    d == IF callback_raises THEN [self |-> p.self, log |-> network_log]
                         ELSE loop_deliver(p.self, p.loc, network_log)
                IN  /\ objs' = [objs EXCEPT ![1] = d.self]
                    /\ threads' = [threads EXCEPT ![i].loc = p.loc, ![i].pc = "while"]
                    /\ callbacks' = [callbacks EXCEPT ![1] = Append(@, p.loc.data)]
                    /\ anomaly_files' = p.fs
                    /\ network_log' = d.log
                    /\ last_close' = ObserveClose(o, p.self, anomaly_files, p.fs)
                    /\ stream' = ObserveStream(o, p.self, latency)
                    /\ env' = [env EXCEPT
                                  !.ticks = @ + 1,
                                  !.fault = IF callback_raises THEN "callback" ELSE "none",
                                  !.fail_run = IF latency = None THEN @ + 1 ELSE 0,
                                  !.loop_run = IF latency = None THEN @ + 1 ELSE 0,
                                  !.episode = IF latency = None THEN @
                                              ELSE EpisodeHistory(o, p.self, latency, @),
                                  !.cache = CacheHistory(o, p.self, @)]
    /\ UNCHANGED <<monitors, monitor_threads, caller, today, now>>

NextMid ==
    \/ NextOps
    \/ \E i \in DOMAIN threads, latency \in OpsResults : MidCount(i, latency)
    \/ \E i \in DOMAIN threads, callback_raises \in BOOLEAN : MidRecord(i, callback_raises)

SpecMid == InitMid /\ [][NextMid]_vars

\* C37: reset_stats may run at any point of an iteration; once the iteration
\* has completed, successful_pings + failed_pings = total_pings
C37_CountsAddUpAcrossReset ==
    [][\A i \in DOMAIN threads, callback_raises \in BOOLEAN :
          MidRecord(i, callback_raises) =>
              objs'[1].stats.successful_pings + objs'[1].stats.failed_pings
                  = objs'[1].stats.total_pings]_vars

----------------------------------------------------------------------------
(* Specification SpecTwice: one instance with log_buffer_max = 2, its loop  *)
(* and a caller that stops and restarts it.  flush_log_buffer is taken in   *)
(* two steps, the rows written (lines 427-449) and the buffer cleared (line *)
(* 451), in the loop's thread (line 421) and in the caller's (line 474).    *)

TwiceBufferMax == 2

InitTwice ==
    /\ InitCommon
    /\ objs = <<[NetworkMonitor(<<"default">>, "Home WiFi", EmptyFiles, 0)
                    EXCEPT !.log_buffer_max = TwiceBufferMax]>>
    /\ callbacks = <<<<>>>>
    /\ env = InitEnv

\* lines 427-449 of flush_log_buffer: the rows of the buffer are in the file
flush_rows(self, log) == flush_write(self, log, Exists(log, flush_file(self))).log

\* start_monitoring by the caller; the new thread enters monitor_loop
TwiceStart ==
    /\ caller.pc = "idle"
    /\ ~objs[1].monitoring
    /\ env.starts < MaxStarts
    /\ objs' = [objs EXCEPT ![1] = start_monitoring(@, today, "")]
    /\ threads' = Append(threads, [LoopThread(1) EXCEPT !.pc = "while"])
    /\ env' = [env EXCEPT !.starts = @ + 1]
    /\ UNCHANGED <<monitors, monitor_threads, caller, callbacks, network_log,
                   anomaly_files, today, now, last_close, stream>>

\* one iteration of thread i up to the record joining the buffer (line 417);
\* with the buffer full the thread enters flush_log_buffer
TwiceTick(i, latency) ==
    /\ threads[i].pc = "while"
    /\ objs[1].monitoring
    /\ env.ticks < MaxFlushPings
    /\ LET timestamp == [d |-> today, t |-> now + 1]
           p == loop_probe(objs[1], threads[i].loc, latency, timestamp, anomaly_files,
                           today)
           s == log_append(update_packet_loss(p.self), timestamp, latency)
       IN  /\ objs' = [objs EXCEPT ![1] = s]
           /\ callbacks' = [callbacks EXCEPT ![1] = Append(@, p.loc.data)]
           /\ anomaly_files' = p.fs
           /\ threads' = [threads EXCEPT
                             ![i].loc = p.loc,
                             ![i].pc = IF Len(s.log_buffer) >= s.log_buffer_max
                                       THEN "flush" ELSE "while"]
    /\ now' = now + 1
    /\ env' = [env EXCEPT !.ticks = @ + 1, !.last = latency]
    /\ UNCHANGED <<monitors, monitor_threads, caller, network_log, today, last_close,
                   stream>>

\* line 299: the loop finds monitoring False and ends
TwiceLoopExit(i) ==
    /\ threads[i].pc = "while"
    /\ ~objs[1].monitoring
    /\ threads' = [threads EXCEPT ![i].pc = "done"]
    /\ UNCHANGED <<objs, monitors, monitor_threads, caller, callbacks, network_log,
                   anomaly_files, today, now, env, last_close, stream>>

\* flush_log_buffer in the loop's thread, lines 427-449
TwiceWrite(i) ==
    /\ threads[i].pc = "flush"
    /\ IF objs[1].log_buffer = <<>>
       THEN /\ threads' = [threads EXCEPT ![i].pc = "while"]
            /\ UNCHANGED network_log
       ELSE /\ threads' = [threads EXCEPT ![i].pc = "clear"]
            /\ network_log' = flush_rows(objs[1], network_log)
    /\ UNCHANGED <<objs, monitors, monitor_threads, caller, callbacks, anomaly_files,
                   today, now, env, last_close, stream>>

\* line 451 in the loop's thread: self.log_buffer.clear()
TwiceClear(i) ==
    /\ threads[i].pc = "clear"
    /\ objs' = [objs EXCEPT ![1].log_buffer = <<>>]
    /\ threads' = [threads EXCEPT ![i].pc = "while"]
    /\ UNCHANGED <<monitors, monitor_threads, caller, callbacks, network_log,
                   anomaly_files, today, now, env, last_close, stream>>

\* stop_monitoring by the caller, lines 472-474 and 427-449 of the flush
TwiceStop ==
    /\ caller.pc = "idle"
    /\ objs[1].monitoring
    /\ objs' = [objs EXCEPT ![1].monitoring = FALSE]
    /\ IF objs[1].log_buffer = <<>>
       THEN UNCHANGED <<caller, network_log>>
       ELSE /\ caller' = [caller EXCEPT !.pc = "clear"]
            /\ network_log' = flush_rows(objs[1], network_log)
    /\ UNCHANGED <<monitors, monitor_threads, threads, callbacks, anomaly_files, today,
                   now, env, last_close, stream>>

\* line 451 in the caller's thread; stop_monitoring returns
TwiceStopClear ==
    /\ caller.pc = "clear"
    /\ objs' = [objs EXCEPT ![1].log_buffer = <<>>]
    /\ caller' = [caller EXCEPT !.pc = "idle", !.returned = "stop_monitoring"]
    /\ UNCHANGED <<monitors, monitor_threads, threads, callbacks, network_log,
                   anomaly_files, today, now, env, last_close, stream>>

NextTwice ==
    \/ TwiceStart
    \/ \E i \in DOMAIN threads, latency \in ProbeResults : TwiceTick(i, latency)
    \/ \E i \in DOMAIN threads : TwiceLoopExit(i)
    \/ \E i \in DOMAIN threads : TwiceWrite(i)
    \/ \E i \in DOMAIN threads : TwiceClear(i)
    \/ TwiceStop
    \/ TwiceStopClear

SpecTwice == InitTwice /\ [][NextTwice]_vars

\* C38: no record appears twice in a file of the probe log, whichever thread
\* flushed it
C38_WrittenOnce ==
    \A f \in DOMAIN network_log :
        \A j, k \in DOMAIN network_log[f] :
            (j < k /\ network_log[f][k] # LogHeader) =>
                network_log[f][j] # network_log[f][k]

----------------------------------------------------------------------------
(* Specification SpecLoad: the manager of SpecDual with probes slow enough  *)
(* for an instance to confirm and persist an episode (200 ms, then 20 ms,   *)
(* with the parameters of TemplateConfig) before another instance is        *)
(* created.                                                                 *)

MaxLoadPings == 3

LoadResults == {20, 200}

InitLoad == InitMgr

\* one whole iteration of the loop of thread i (lines 299-387)
LoadTick(i, latency) ==
    /\ threads[i].kind = "loop" /\ threads[i].pc = "while"
    /\ objs[threads[i].mon].monitoring
    /\ env.ticks < MaxLoadPings
    /\ LET m == threads[i].mon
           p == loop_probe(objs[m], threads[i].loc, latency, Timestamp, anomaly_files,
                           today)
           d == loop_deliver(p.self, p.loc, network_log)
       IN  /\ objs' = [objs EXCEPT ![m] = d.self]
           /\ threads' = [threads EXCEPT ![i].loc = p.loc]
           /\ callbacks' = [callbacks EXCEPT ![m] = Append(@, p.loc.data)]
           /\ anomaly_files' = p.fs
           /\ network_log' = d.log
    /\ env' = [env EXCEPT !.ticks = @ + 1]
    /\ UNCHANGED <<monitors, monitor_threads, caller, MgrUnchanged>>

NextLoad ==
    \/ DualSetTemplate(TemplateConfig)
    \/ \E wifi_ssid \in Ssids, has_main \in BOOLEAN, force_new \in BOOLEAN :
          DualAdd(wifi_ssid, has_main, force_new)
    \/ \E key \in DOMAIN monitors : DualStart(key)
    \/ \E i \in DOMAIN threads, latency \in LoadResults : LoadTick(i, latency)
    \/ \E key \in DOMAIN monitors : DualStop(key)

SpecLoad == InitLoad /\ [][NextLoad]_vars

\* C39: detected_anomalies of an instance holds only episodes that the
\* instance confirmed itself: an instance that has taken no sample, such as
\* one just created for an SSID that another instance monitors, holds none
C39_OnlyOwnEpisodes ==
    \A m \in DOMAIN objs :
        objs[m].stats.total_pings = 0 => objs[m].detected_anomalies = <<>>

====
